---- MODULE Spec2Model ----
(***************************************************************************)
(* corsarowdcap: the two-phase parallel capture-and-merge engine.          *)
(*                                                                         *)
(* Processing threads (per_packet) append packets to per-thread interim    *)
(* files and tell the merging thread, over a zeromq PUSH/PULL queue, when  *)
(* they have passed an interval boundary.  The merging thread               *)
(* (start_merging_thread, merge_finished_interval, write_merged_output,    *)
(* choose_next_merge_packet) combines the interim files of an interval     *)
(* once every processing thread has reported it.  The main thread          *)
(* (run_wdcap) waits for the halt flag, stops the input, sends the halt    *)
(* message to the merger and joins it.                                     *)
(*                                                                         *)
(* Two specifications are given.  Spec is the whole capture process.       *)
(* MergerSpec drives the merging thread alone with arbitrary sequences of  *)
(* interval-over messages and arbitrary sorted interim files.              *)
(***************************************************************************)
EXTENDS Integers, Sequences, FiniteSets, TLC

(* ------------------------------ bounds -------------------------------- *)

\* glob->threads: the number of processing threads
Threads == 2

\* glob->interval: the length of an interval in seconds
Interval == 2

\* sub-second resolution of a packet timestamp (ticks per second)
TicksPerSec == 2

\* packets carry timestamps whose seconds lie in 1..MaxTime
MaxTime == 4

\* the sub-second part of the timestamps the packet source of Spec gives
\* its packets lies in 0..MaxSubTick (MergerSpec uses every tick)
MaxSubTick == 0

\* the capture delivers at most MaxPkts packets in total
MaxPkts == 4

\* at most MaxFaults calls into the libraries fail in one run
MaxFaults == 1

\* MergerSpec: the packets held by the interim files of one driver run
MaxFilePkts == 3

\* MergerSpec: the number of intervals the driver reports
DriverIntervals == 2

\* BadSpec: the driver stops once the merging thread has counted
\* MaxBad messages of an unknown type
MaxBad == 101

\* the monitor process forks at most MaxChildren capture processes
MaxChildren == 3

\* StartSpec: at most MaxSignals signals are sent to the capture process
MaxSignals == 2

\* StatsSpec: a counter of the statistics of a thread is at most MaxStat
MaxStat == 1

\* StatsSpec: at most MaxSetFields fields of the statistics of a thread
\* differ from cleared statistics
MaxSetFields == 2

\* MemSpec: the number of items of a blob of the memory handler
ItemsPerBlob == 2

\* MemSpec: the memory handler creates at most MaxBlobs blobs
MaxBlobs == 3

\* MemSpec: the number of blobs the free list of the memory handler keeps;
\* the code keeps 100
MaxFreeList == 1

\* ReportSpec: the number of IP tracker threads
Trackers == 2

\* ReportSpec: the number of updates of a full batch
REPORT_BATCH_SIZE == 2

\* ReportSpec: the number of intervals the processing thread starts
MaxReportIntervals == 2

\* ReportSpec: the number of packets the processing thread is given
MaxReportPkts == 3

\* ReportSpec: the number of calls of zmq_send that fail
MaxSendFaults == 1

\* FilterSpec: the length of a list of filters to run
MaxToRun == 3

Workers == 0 .. (Threads - 1)

\* The process ids of the capture processes, in the order they are forked
Pids == 1 .. MaxChildren

\* The producer index of the main thread's push socket (glob->zmq_pushsock)
MainProducer == Threads

\* The threads of a capture process: the processing threads, the merging
\* thread and the main thread
MergerTid == Threads

MainTid == Threads + 1

AllThreads == Workers \cup {MergerTid, MainTid}

\* The signals for which main installs a handler
Signals == {"SIGINT", "SIGTERM", "SIGHUP", "SIGCHLD"}

Producers == 0 .. Threads

(* --------------------------- program constants ------------------------ *)

\* The number of values of a uint8_t
UINT8_RANGE == 256

\* (uint64_t)-1, the initial nextp_ts of an interim reader.  Timestamps of
\* the model are far below it.
TS_UNSET == 2147483647

(* ------------------------------ packets ------------------------------- *)

\* A packet: the processing thread it was delivered to, its position in that
\* thread's stream, and its timestamp in ticks.
Packet(w, n, ts) == [w |-> w, n |-> n, ts |-> ts]

NoPacket == [w |-> -1, n |-> 0, ts |-> 0]

\* trace_get_timeval(packet).tv_sec
Sec(ts) == ts \div TicksPerSec

\* trace_get_erf_timestamp(packet)
ErfTimestamp(p) == p.ts

\* The timestamps the packet source gives its packets
Ticks ==
    {sec * TicksPerSec + (sub % TicksPerSec) :
        sec \in 1 .. MaxTime, sub \in 0 .. MaxSubTick}

(* ---------------------------- file names ------------------------------ *)

NoName == <<>>

\* corsaro_wdcap_derive_output_name: the rendered name depends on the interval
\* timestamp, on the thread id (interim files) and, for names without a thread
\* id, on the extension type (0 none, 1 ".done", 2 ".stats").  needformat
\* prepends "format:" to make a libtrace URI.
corsaro_wdcap_derive_output_name(timestamp, threadid, needformat, exttype) ==
    [format |-> needformat,
     path |-> <<timestamp, threadid, IF threadid >= 0 THEN 0 ELSE exttype>>]

\* The bare path of a URI: what follows the first ':' (or the whole string)
BarePath(uri) == uri.path

InterimPath(timestamp, w) ==
    BarePath(corsaro_wdcap_derive_output_name(timestamp, w, 0, 0))

MergedPath(timestamp) ==
    BarePath(corsaro_wdcap_derive_output_name(timestamp, -1, 1, 0))

DonePath(timestamp) ==
    BarePath(corsaro_wdcap_derive_output_name(timestamp, -1, 0, 1))

(* ---------------------------- small helpers --------------------------- *)

Count(f, x) == IF x \in DOMAIN f THEN f[x] ELSE 0

Incr(f, x) == (x :> (Count(f, x) + 1)) @@ f

Content(d, path) == IF path \in DOMAIN d THEN d[path] ELSE <<>>

AppendTo(d, path, p) == (path :> Append(Content(d, path), p)) @@ d

RemoveFile(d, path) == [q \in (DOMAIN d) \ {path} |-> d[q]]

\* open(2) returns the lowest descriptor that is not in use
LowestFreeFd(fds) == CHOOSE n \in 0 .. Cardinality(fds) : n \notin fds

VARIABLES
    \* globals of the capture process
    corsaro_halted,     \* volatile int corsaro_halted
    corsaro_restart,    \* volatile int corsaro_restart
    threads_ended,      \* glob->threads_ended
    \* processing threads
    tls,                \* glob->threaddata[i]
    \* the packet source (parallel libtrace)
    delivered,          \* per thread, the timestamps of the packets delivered
    first_packet,       \* timestamp of the first packet of the capture, 0 if none
    \* the internal zeromq queue, one pipe per producer
    chan,
    \* the file system and the descriptor table
    disk,               \* path -> sequence of packets, for every existing file
    open_fds,           \* descriptors of interim files that are open
    \* the merging thread
    mpc,                \* "recv", "merging", "cleanup", "exited" or "aborted"
    waiting,            \* mergestate.waiting, oldest entry first
    fin,                \* position in waiting of the interval being merged
    readers,            \* mergestate.readers
    mwriter,            \* mergestate.writer is not NULL
    badmessages,        \* messages of an unknown type received so far
    \* the main thread
    mainpc,
    \* the environment
    faults,             \* library calls that have failed so far
    \* history
    appended,           \* path -> every packet ever appended to that interim file
    recvd,              \* <<threadid, timestamp>> -> interval-over messages handled
    created,            \* timestamp -> pending intervals allocated for it
    freed,              \* timestamp -> pending intervals freed for it
    mergelog,           \* timestamp -> outcome of write_merged_output
    \* the monitor process (main) and the capture processes it forks
    monpc,              \* where the monitor process is in main
    mon_halted,         \* corsaro_halted of the monitor process
    mon_restart,        \* corsaro_restart of the monitor process
    child_halted,
    restart_triggered,
    runerr,
    runpid,
    dec_tmp,            \* the value read by "child_halted --" before it is stored
    children,           \* pid -> "none", "alive", "zombie" or "reaped"
    pidwritten,         \* the capture processes that have written the pid file
    pidfile,            \* the pid in the pid file, 0 if it cannot be read
    \* history of the monitor process
    hupped,             \* the pids SIGHUP was sent to
    termed,             \* the pids SIGTERM was sent to
    forwarded,          \* a reload was forwarded since the last exit was reaped
    unexpected,         \* exits reaped with no reload forwarded since the one before
    \* the start of the threads in run_wdcap
    startpc,            \* where run_wdcap is in the start of the threads
    started,            \* the threads that exist
    sigmask,            \* thread -> the signals it blocks
    sig_before,         \* the mask saved by pthread_sigmask
    sigpending,         \* signals sent to the process that every thread blocks
    handled,            \* <<thread, signal>>: the thread has run the handler
    \* the statistics of an interval (glob->writestats)
    thread_stats,       \* fin->thread_ids and fin->thread_stats, in order of arrival
    statsfile,          \* the lines of the ".stats" file, <<>> if not written
    \* the memory handler
    memhandler,         \* current, freelist, freelistavail, unreleased
    memblobs,           \* reference -> the blob, in order of creation
    mh_held,            \* the items the callers hold
    mh_ret,             \* the item the last get returned
    mh_last,            \* the last call of the memory handler
    mh_crashed,         \* a NULL blob has been dereferenced
    \* the report plugin in one processing thread
    totracker,          \* tracker -> seqno, header and buffered updates
    tracker_queues,     \* tracker -> the messages sent and the parts that wait
    current_interval,   \* state->current_interval
    rp_phase,           \* "open" between start_interval and end_interval
    rp_pkts,            \* the packets processed
    rp_faults,          \* the calls of zmq_send that failed
    rp_last,            \* the last callback of the plugin
    \* the built-in filters
    flt_packet,         \* the packet the filters were applied to, if any
    flt_asked,          \* the torun list as it was passed in
    flt_torun,          \* the torun list after corsaro_apply_multiple_filters
    flt_ret,            \* the return value of corsaro_apply_multiple_filters
    flt_byid            \* the last result of corsaro_apply_filter_by_id, if any

vars == <<corsaro_halted, corsaro_restart, threads_ended, tls, delivered,
          first_packet, chan, disk, open_fds, mpc, waiting, fin, readers,
          mwriter, mainpc, faults, appended, recvd, created, freed, mergelog,
          badmessages,
          monpc, mon_halted, mon_restart, child_halted, restart_triggered,
          runerr, runpid, dec_tmp, children, pidwritten, pidfile, hupped,
          termed, forwarded, unexpected,
          startpc, started, sigmask, sig_before, sigpending, handled,
          thread_stats, statsfile,
          memhandler, memblobs, mh_held, mh_ret, mh_last, mh_crashed,
          totracker, tracker_queues, current_interval, rp_phase, rp_pkts,
          rp_faults, rp_last,
          flt_packet, flt_asked, flt_torun, flt_ret, flt_byid>>

capturevars == <<corsaro_halted, corsaro_restart, threads_ended, tls, delivered,
                 first_packet, chan, disk, open_fds, mpc, waiting, fin,
                 readers, mwriter, mainpc, faults, appended, recvd, created,
                 freed, mergelog, badmessages>>

supvars == <<monpc, mon_halted, mon_restart, child_halted, restart_triggered,
             runerr, runpid, dec_tmp, children, pidwritten, pidfile, hupped,
             termed, forwarded, unexpected>>

startvars == <<startpc, started, sigmask, sig_before, sigpending, handled>>

statvars == <<thread_stats, statsfile>>

memvars == <<memhandler, memblobs, mh_held, mh_ret, mh_last, mh_crashed>>

\* The variables of the parts of the program that are modelled on their own
repvars == <<totracker, tracker_queues, current_interval, rp_phase, rp_pkts,
            rp_faults, rp_last>>

fltvars == <<flt_packet, flt_asked, flt_torun, flt_ret, flt_byid>>

auxvars == <<statvars, memvars, repvars, fltvars>>

\* What the statistics of an interval leave alone
outside_stats == <<capturevars, supvars, startvars, memvars, repvars,
                   fltvars>>

\* What the memory handler leaves alone
outside_mem == <<capturevars, supvars, startvars, statvars, repvars, fltvars>>

\* What the report plugin leaves alone
outside_rep == <<capturevars, supvars, startvars, statvars, memvars, fltvars>>

\* What the filters leave alone
outside_flt == <<capturevars, supvars, startvars, statvars, memvars, repvars>>

workervars == <<corsaro_restart, threads_ended, tls, delivered, first_packet>>

mergervars == <<mpc, waiting, fin, readers, mwriter, recvd, created, freed,
                mergelog, badmessages>>

(* ----------------------- processing thread state ---------------------- *)

\* init_wdcap_thread_data
init_wdcap_thread_data ==
    [time |-> 0, next_report |-> 0, fd |-> -1, interimfilename |-> NoName,
     ending |-> 0]

\* calloc'ed corsaro_wdcap_interim_reader_t.  freed: uri, source and nextp
\* point to memory that the clean-up of an earlier merge has released.
NoReader ==
    [uri |-> NoName, source |-> FALSE, pos |-> 0, nextp |-> NoPacket,
     nextp_ts |-> 0, status |-> "NOPACKET", freed |-> FALSE]

\* A reader after the clean-up of write_merged_output: its pointers are not
\* reset
FreedReader == [NoReader EXCEPT !.freed = TRUE]

BaseInit ==
    /\ corsaro_halted = 0
    /\ corsaro_restart = 0
    /\ threads_ended = 0
    /\ tls = [w \in Workers |-> init_wdcap_thread_data]
    /\ delivered = [w \in Workers |-> <<>>]
    /\ first_packet = 0
    /\ chan = [p \in Producers |-> <<>>]
    /\ disk = <<>>
    /\ open_fds = {}
    /\ mpc = "recv"
    /\ waiting = <<>>
    /\ fin = 0
    /\ readers = [w \in Workers |-> NoReader]
    /\ mwriter = FALSE
    /\ mainpc = "running"
    /\ faults = 0
    /\ appended = <<>>
    /\ recvd = <<>>
    /\ created = <<>>
    /\ freed = <<>>
    /\ mergelog = <<>>
    /\ badmessages = 0
    /\ monpc = "loop"
    /\ mon_halted = 0
    /\ mon_restart = 0
    /\ child_halted = 0
    /\ restart_triggered = 0
    /\ runerr = 0
    /\ runpid = 0
    /\ dec_tmp = 0
    /\ children = [c \in Pids |-> IF c = 1 THEN "alive" ELSE "none"]
    /\ pidwritten = {}
    /\ pidfile = 0
    /\ hupped = {}
    /\ termed = {}
    /\ forwarded = FALSE
    /\ unexpected = 0

\* No statistics have been reported and no ".stats" file is written
StatsInit ==
    /\ thread_stats = <<>>
    /\ statsfile = <<>>

\* A null pointer
NULL == 0

\* The items of the blobs of the memory handler
Items == [itemsource : 1 .. MaxBlobs, slot : 0 .. (ItemsPerBlob - 1)]

\* No item of the memory handler
NoItem == [itemsource |-> NULL, slot |-> 0]

\* init_corsaro_memhandler: one fresh blob is the current blob, the free
\* list is empty
MemInit ==
    /\ memhandler = [current |-> 1, freelist |-> NULL, freelistavail |-> 0,
                     unreleased |-> 1]
    /\ memblobs = <<[alloceditems |-> ItemsPerBlob, nextavail |-> 0,
                     released |-> 0, nextfree |-> NULL, mapped |-> TRUE]>>
    /\ mh_held = {}
    /\ mh_ret = NoItem
    /\ mh_last = "init"
    /\ mh_crashed = FALSE

\* corsaro_report_init_processing and init_ipmsg_header: for every tracker
\* an empty buffer behind an update header, sequence number 0
ReportInit ==
    /\ totracker = [i \in 0 .. (Trackers - 1) |->
                      [seqno |-> 0, bodies |-> 0,
                       header |-> [msgtype |-> "UPDATE", sender |-> 0,
                                   timestamp |-> 0, bodycount |-> 0,
                                   seqno |-> 0]]]
    /\ tracker_queues = [i \in 0 .. (Trackers - 1) |->
                           [queue |-> <<>>, more |-> <<>>]]
    /\ current_interval = 0
    /\ rp_phase = "idle"
    /\ rp_pkts = 0
    /\ rp_faults = 0
    /\ rp_last = "init"

\* No packet has been filtered
FilterInit ==
    /\ flt_packet = <<>>
    /\ flt_asked = <<>>
    /\ flt_torun = <<>>
    /\ flt_ret = 0
    /\ flt_byid = <<>>

\* The parts of the program that are modelled on their own, before they run
AuxInit == StatsInit /\ MemInit /\ ReportInit /\ FilterInit

\* The state of a capture process whose threads run, and of the monitor
\* process that has forked it
Init ==
    /\ BaseInit
    /\ startpc = "running"
    /\ started = AllThreads
    /\ sigmask = [t \in AllThreads |-> {}]
    /\ sig_before = {}
    /\ sigpending = {}
    /\ handled = {}
    /\ AuxInit

(* --------------------------- signal handlers -------------------------- *)

\* cleanup_signal: SIGINT or SIGTERM
cleanup_signal ==
    /\ mainpc = "running"
    /\ corsaro_halted = 0
    /\ corsaro_halted' = 1
    /\ UNCHANGED <<corsaro_restart, threads_ended, tls, delivered, first_packet,
                   chan, disk, open_fds, mainpc, faults, appended>>
    /\ UNCHANGED mergervars
    /\ UNCHANGED supvars
    /\ UNCHANGED startvars
    /\ UNCHANGED auxvars

\* restart_signal: SIGHUP, accepted by the rate limit
restart_signal ==
    /\ mainpc = "running"
    /\ corsaro_restart = 0
    /\ corsaro_restart' = 1
    /\ UNCHANGED <<corsaro_halted, threads_ended, tls, delivered, first_packet,
                   chan, disk, open_fds, mainpc, faults, appended>>
    /\ UNCHANGED mergervars
    /\ UNCHANGED supvars
    /\ UNCHANGED startvars
    /\ UNCHANGED auxvars

(* ------------------------------ per_packet ---------------------------- *)

\* Mutant: the first boundary is a whole interval after the first packet
FirstInterval_Unaligned(t, firstsec) ==
    [t EXCEPT !.time = firstsec, !.next_report = firstsec + Interval]

\* The first interval of a thread, from the time of the first packet
FirstInterval(t, firstsec) ==
    [t EXCEPT !.time = firstsec,
              !.next_report = firstsec - (firstsec % Interval) + Interval]

\* Mutant: a packet on the boundary itself still belongs to the old interval
IntervalOver_Strict(t, sec) ==
    corsaro_restart = 1 \/ (t.next_report # 0 /\ sec > t.next_report)

\* Mutant: the loop does not look at the reload flag
IntervalOver_NoRestart(t, sec) == t.next_report # 0 /\ sec >= t.next_report

\* The condition of the boundary loop
IntervalOver(t, sec) ==
    corsaro_restart = 1 \/ (t.next_report # 0 /\ sec >= t.next_report)

\* Mutant: the writer keeps the descriptor it returns
corsaro_reset_fast_trace_writer_KeepsFd(t) == [src_fd |-> t.fd, tls |-> t]

\* corsaro_reset_fast_trace_writer: detaches the descriptor of the writer and
\* returns it, -1 when the writer has no open file
corsaro_reset_fast_trace_writer(t) ==
    [src_fd |-> t.fd, tls |-> [t EXCEPT !.fd = -1]]

\* Mutant: the message names the interval that begins, not the one that ends
IntervalDoneMsg_NextReport(w, t, srcfd) ==
    [type |-> "INTERVAL_DONE", threadid |-> w, timestamp |-> t.next_report,
     src_fd |-> srcfd]

\* The interval-over message of thread w
IntervalDoneMsg(w, t, srcfd) ==
    [type |-> "INTERVAL_DONE", threadid |-> w, timestamp |-> t.time,
     src_fd |-> srcfd]

\* Mutant: the next interval is named a whole interval after the current one
AdvanceInterval_FromStart(t) ==
    [t EXCEPT !.time = t.time + Interval, !.next_report = t.next_report + Interval]

\* Mutant: only the boundary moves on, not the start of the interval
AdvanceInterval_KeepsTime(t) ==
    [t EXCEPT !.next_report = t.next_report + Interval]

\* Moving on to the next interval after a successful send
AdvanceInterval(t) ==
    [t EXCEPT !.time = t.next_report, !.next_report = t.next_report + Interval]

\* Mutant: a failed send still moves the thread on to the next interval
FailedSend_Advances(t, msgs) ==
    [tls |-> AdvanceInterval(t), msgs |-> msgs, halt |-> TRUE,
     ended |-> FALSE, returned |-> TRUE]

\* zmq_send fails: the halt flag is set and the callback returns with the
\* interval as it was
FailedSend(t, msgs) ==
    [tls |-> t, msgs |-> msgs, halt |-> TRUE, ended |-> FALSE,
     returned |-> TRUE]

\* The while loop of per_packet.  k counts the sends; the send numbered
\* failat fails (0: no send fails).  The result tells whether the callback
\* returned from inside the loop.
RECURSIVE BoundaryLoop(_, _, _, _, _, _)
BoundaryLoop(w, t, sec, msgs, failat, k) ==
    IF ~IntervalOver(t, sec)
    THEN [tls |-> t, msgs |-> msgs, halt |-> FALSE, ended |-> FALSE,
          returned |-> FALSE]
    ELSE LET rst == corsaro_reset_fast_trace_writer(t)
             msg == IntervalDoneMsg(w, t, rst.src_fd)
             t1 == [rst.tls EXCEPT !.interimfilename = NoName]
         IN  IF k = failat
             THEN FailedSend(t1, msgs)
             ELSE IF corsaro_restart = 1
             THEN [tls |-> [AdvanceInterval(t1) EXCEPT !.ending = 1],
                   msgs |-> Append(msgs, msg), halt |-> FALSE,
                   ended |-> TRUE, returned |-> TRUE]
             ELSE BoundaryLoop(w, AdvanceInterval(t1), sec,
                               Append(msgs, msg), failat, k + 1)

\* The most sends one call of per_packet can make
MaxSends == (MaxTime \div Interval) + 2

\* The library calls of per_packet that can fail.  A failed call makes the
\* callback return, so at most one call fails in one invocation:
\* <<"none", 0>>, <<"first", 0>> (trace_get_first_packet), <<"send", k>> (the
\* k-th zmq_send), <<"name", 0>> (corsaro_wdcap_derive_output_name),
\* <<"open", 0>> (corsaro_start_fast_trace_writer) or <<"write", 0>>
\* (corsaro_fast_write_erf_packet).
PacketFaults ==
    {<<"none", 0>>, <<"first", 0>>, <<"name", 0>>, <<"open", 0>>,
     <<"write", 0>>}
        \cup {<<"send", k>> : k \in 1 .. MaxSends}

\* per_packet for thread w and packet p.  firstok: trace_get_first_packet
\* succeeds; failat: which zmq_send fails; nameok: the name of the interim
\* file can be derived; openok: the interim file can be opened; writeok: the
\* asynchronous write is accepted.
\* The result: the thread state, the messages sent, whether the halt flag is
\* set, whether the thread marked itself as ending, the interim file opened
\* (NoName if none), whether the packet was appended, and whether a library
\* call failed.
per_packet(w, p, firstok, failat, nameok, openok, writeok, newfd) ==
    LET t0 == tls[w]
        quiet == [tls |-> t0, msgs |-> <<>>, halt |-> FALSE, ended |-> FALSE,
                  opened |-> NoName, wrote |-> FALSE, failed |-> FALSE]
        firstsec == Sec(IF first_packet = 0 THEN p.ts ELSE first_packet)
        t1 == IF t0.time = 0 THEN FirstInterval(t0, firstsec) ELSE t0
        lp == BoundaryLoop(w, t1, Sec(p.ts), <<>>, failat, 1)
        t2 == lp.tls
        name == corsaro_wdcap_derive_output_name(t2.time, w, 0, 0)
        needopen == t2.interimfilename = NoName
        t3 == IF needopen
              THEN [t2 EXCEPT !.interimfilename = name,
                              !.fd = IF openok THEN newfd ELSE -1]
              ELSE t2
        written == writeok /\ t3.fd # -1
    IN  IF t0.ending = 1 THEN quiet
        ELSE IF t0.time = 0 /\ ~firstok
        THEN [quiet EXCEPT !.halt = TRUE, !.failed = TRUE]
        ELSE IF lp.returned
        THEN [tls |-> t2, msgs |-> lp.msgs, halt |-> lp.halt,
              ended |-> lp.ended, opened |-> NoName, wrote |-> FALSE,
              failed |-> lp.halt]
        ELSE IF needopen /\ ~nameok
        THEN [tls |-> t2, msgs |-> lp.msgs, halt |-> TRUE, ended |-> FALSE,
              opened |-> NoName, wrote |-> FALSE, failed |-> TRUE]
        ELSE IF needopen /\ ~openok
        THEN [tls |-> t3, msgs |-> lp.msgs, halt |-> TRUE, ended |-> FALSE,
              opened |-> NoName, wrote |-> FALSE, failed |-> TRUE]
        ELSE [tls |-> t3, msgs |-> lp.msgs, halt |-> ~written,
              ended |-> FALSE,
              opened |-> IF needopen THEN BarePath(name) ELSE NoName,
              wrote |-> written, failed |-> ~writeok /\ t3.fd # -1]

\* The timestamps the packet source may give the next packet of thread w:
\* a thread sees its packets in chronological order, and no packet is older
\* than the first packet of the capture.  Interval boundaries are periodic,
\* so the capture is taken to start within the first Interval seconds.
NextTimestamps(w) ==
    {ts \in Ticks :
        /\ ts >= first_packet
        /\ first_packet = 0 => Sec(ts) <= Interval
        /\ Len(delivered[w]) > 0 => ts >= delivered[w][Len(delivered[w])]}

TotalDelivered ==
    LET RECURSIVE Sum(_)
        Sum(i) == IF i = Threads THEN 0 ELSE Len(delivered[i]) + Sum(i + 1)
    IN Sum(0)

\* Mutant: the first thread that ends halts the capture
AllEnded_Any(n) == n >= 1

\* The test made under globmutex after threads_ended was incremented to n:
\* every processing thread has ended
AllEnded(n) == n >= Threads

\* The packet source delivers a packet to processing thread w
Deliver(w) ==
    /\ mainpc = "running"
    /\ TotalDelivered < MaxPkts
    /\ \E ts \in NextTimestamps(w),
          f \in IF faults < MaxFaults THEN PacketFaults ELSE {<<"none", 0>>} :
        LET p == Packet(w, Len(delivered[w]) + 1, ts)
            newfd == LowestFreeFd(open_fds)
            r == per_packet(w, p, f[1] # "first",
                            IF f[1] = "send" THEN f[2] ELSE 0,
                            f[1] # "name", f[1] # "open", f[1] # "write", newfd)
            d1 == IF r.opened # NoName THEN (r.opened :> <<>>) @@ disk ELSE disk
            path == BarePath(r.tls.interimfilename)
        IN  /\ tls' = [tls EXCEPT ![w] = r.tls]
            /\ chan' = [chan EXCEPT ![w] = @ \o r.msgs]
            /\ threads_ended' = threads_ended + (IF r.ended THEN 1 ELSE 0)
            /\ corsaro_halted' =
                  IF r.halt \/ (r.ended /\ AllEnded(threads_ended + 1))
                  THEN 1 ELSE corsaro_halted
            /\ open_fds' = IF r.opened # NoName
                           THEN open_fds \cup {newfd} ELSE open_fds
            /\ disk' = IF r.wrote THEN AppendTo(d1, path, p) ELSE d1
            /\ appended' = IF r.wrote THEN AppendTo(appended, path, p)
                           ELSE appended
            /\ delivered' = [delivered EXCEPT ![w] = Append(@, ts)]
            /\ first_packet' = IF first_packet = 0 THEN ts ELSE first_packet
            /\ r.failed = (f[1] # "none")
            /\ faults' = IF r.failed THEN faults + 1 ELSE faults
    /\ UNCHANGED <<corsaro_restart, mainpc>>
    /\ UNCHANGED mergervars
    /\ UNCHANGED supvars
    /\ UNCHANGED startvars
    /\ UNCHANGED auxvars

(* ------------------------------ run_wdcap ----------------------------- *)

\* The halt message of the main thread
StopMsg == [type |-> "STOP", threadid |-> -1, timestamp |-> 0, src_fd |-> -1]

\* Mutant: the main thread pushes the halt message when it sees the halt
\* flag, with the packet source still running
MainStopTrace_SendsStop ==
    /\ mainpc = "running"
    /\ corsaro_halted = 1
    /\ mpc = "recv"
    /\ chan[MainProducer] = <<>>
    /\ chan' = [chan EXCEPT ![MainProducer] = Append(@, StopMsg)]
    /\ UNCHANGED <<corsaro_halted, corsaro_restart, threads_ended, tls,
                   delivered, first_packet, mainpc, disk, open_fds, faults,
                   appended>>
    /\ UNCHANGED mergervars
    /\ UNCHANGED supvars
    /\ UNCHANGED startvars
    /\ UNCHANGED auxvars

\* The main thread sees the halt flag, stops the packet source and joins the
\* processing threads (trace_pstop, trace_join, trace_destroy)
MainStopTrace ==
    /\ mainpc = "running"
    /\ corsaro_halted = 1
    /\ mainpc' = "endwdcap"
    /\ UNCHANGED <<corsaro_halted, corsaro_restart, threads_ended, tls,
                   delivered, first_packet, chan, disk, open_fds, faults,
                   appended>>
    /\ UNCHANGED mergervars
    /\ UNCHANGED supvars
    /\ UNCHANGED startvars
    /\ UNCHANGED auxvars

\* endwdcap: push the halt message to the merging thread (the send may fail)
\* and close the push socket
MainSendStop ==
    /\ mainpc = "endwdcap"
    /\ \E sendok \in IF faults < MaxFaults THEN BOOLEAN ELSE {TRUE} :
        /\ chan' = IF sendok
                   THEN [chan EXCEPT ![MainProducer] = Append(@, StopMsg)]
                   ELSE chan
        /\ faults' = IF sendok THEN faults ELSE faults + 1
    /\ mainpc' = "joining"
    /\ UNCHANGED <<corsaro_halted, corsaro_restart, threads_ended, tls,
                   delivered, first_packet, disk, open_fds, appended>>
    /\ UNCHANGED mergervars
    /\ UNCHANGED supvars
    /\ UNCHANGED startvars
    /\ UNCHANGED auxvars

\* clear_wdcap_thread_data: corsaro_destroy_fast_trace_writer closes the
\* descriptor the writer still holds
clear_wdcap_thread_data(t) ==
    [t EXCEPT !.fd = -1, !.interimfilename = NoName]

\* pthread_join returns once the merging thread has exited; the main thread
\* then tidies up the thread local state
MainJoinMerger ==
    /\ mainpc = "joining"
    /\ mpc = "exited"
    /\ mainpc' = "done"
    /\ open_fds' = open_fds \ {tls[w].fd : w \in Workers}
    /\ tls' = [w \in Workers |-> clear_wdcap_thread_data(tls[w])]
    /\ UNCHANGED <<corsaro_halted, corsaro_restart, threads_ended, delivered,
                   first_packet, chan, disk, faults, appended>>
    /\ UNCHANGED mergervars
    /\ UNCHANGED supvars
    /\ UNCHANGED startvars
    /\ UNCHANGED auxvars

(* ----------------------- choose_next_merge_packet --------------------- *)

\* corsaro_read_next_packet on reader rd: the next packet of its interim file
\* (ret 1), or ret 0 at the end of the file
corsaro_read_next_packet(rd, d) ==
    LET file == Content(d, BarePath(rd.uri))
    IN  IF rd.pos < Len(file)
        THEN [ret |-> 1, nextp |-> file[rd.pos + 1]]
        ELSE [ret |-> 0, nextp |-> rd.nextp]

\* The part of the loop body that refills a reader without a buffered packet
RefillReader(rd, d) ==
    IF rd.status # "NOPACKET" THEN rd
    ELSE LET got == corsaro_read_next_packet(rd, d)
         IN  IF got.ret <= 0
             THEN [rd EXCEPT !.status = "EOF"]
             ELSE [rd EXCEPT !.nextp = got.nextp, !.pos = rd.pos + 1,
                             !.nextp_ts = ErfTimestamp(got.nextp),
                             !.status = "PACKET"]

\* Mutant: the comparison is the wrong way round
EarlierThan_Later(rds, i, candind) == rds[i].nextp_ts > rds[candind].nextp_ts

\* Mutant: a packet with the same timestamp replaces the candidate
EarlierThan_OrEqual(rds, i, candind) == rds[i].nextp_ts <= rds[candind].nextp_ts

\* Is reader i's packet to replace the candidate's?
EarlierThan(rds, i, candind) == rds[i].nextp_ts < rds[candind].nextp_ts

\* The for loop of choose_next_merge_packet, from reader i on
RECURSIVE ScanReaders(_, _, _, _)
ScanReaders(rds, d, i, candind) ==
    IF i >= Threads THEN [readers |-> rds, candind |-> candind]
    ELSE IF rds[i].status = "EOF" THEN ScanReaders(rds, d, i + 1, candind)
    ELSE LET rds1 == [rds EXCEPT ![i] = RefillReader(rds[i], d)]
         IN  IF rds1[i].status = "EOF"
             THEN ScanReaders(rds1, d, i + 1, candind)
             ELSE IF candind = -1 THEN ScanReaders(rds1, d, i + 1, i)
             ELSE IF EarlierThan(rds1, i, candind)
             THEN ScanReaders(rds1, d, i + 1, i)
             ELSE ScanReaders(rds1, d, i + 1, candind)

\* choose_next_merge_packet: the readers after the scan and the index chosen
choose_next_merge_packet(rds, d) == ScanReaders(rds, d, 0, -1)

(* ------------------------- write_merged_output ------------------------ *)

\* Mutant: the reader starts behind the first packet of its file
CreateReader_SkipsFirst(timestamp, i, opens) ==
    [uri |-> corsaro_wdcap_derive_output_name(timestamp, i, 1, 0),
     source |-> opens, pos |-> 1, nextp |-> NoPacket, nextp_ts |-> TS_UNSET,
     status |-> IF opens THEN "NOPACKET" ELSE "EOF", freed |-> FALSE]

\* The read handler for the interim file of thread i.  opens: the file can be
\* opened (it exists and corsaro_create_trace_reader succeeds).
CreateReader(timestamp, i, opens) ==
    [uri |-> corsaro_wdcap_derive_output_name(timestamp, i, 1, 0),
     source |-> opens, pos |-> 0, nextp |-> NoPacket, nextp_ts |-> TS_UNSET,
     status |-> IF opens THEN "NOPACKET" ELSE "EOF", freed |-> FALSE]

\* The loop that creates the read handlers.  pktfail is the reader whose
\* trace_create_packet fails (-1: none): the loop is left at that reader and
\* the later readers keep what the previous merge left in them.
CreateReaders(rds, timestamp, canread, pktfail) ==
    [i \in Workers |->
        IF pktfail # -1 /\ i > pktfail THEN rds[i]
        ELSE CreateReader(timestamp, i, i \in canread)]

\* The interim files of the interval that exist on disk
ExistingInterims(timestamp, d) ==
    {i \in Workers : InterimPath(timestamp, i) \in DOMAIN d}

\* Clean up all of the reader handlers: every interim file whose reader was
\* opened is deleted
RECURSIVE RemoveInterims(_, _, _)
RemoveInterims(rds, d, i) ==
    IF i >= Threads THEN d
    ELSE RemoveInterims(rds,
            IF rds[i].source THEN RemoveFile(d, BarePath(rds[i].uri)) ELSE d,
            i + 1)

\* Mutant: the ".done" file is created whatever the outcome
CreatesDone_Always(success) == success \in {0, 1}

\* Is the ".done" file created?
CreatesDone(success) == success = 1

\* Mutant: the interim files are deleted before the ".done" file is created
DoneCreated_AfterCleanup(timestamp, d, success) ==
    IF CreatesDone(success)
    THEN (DonePath(timestamp) :> <<>>) @@ RemoveInterims(readers, d, 0)
    ELSE d

\* After the label fail: the ".done" file is created on success
DoneCreated(timestamp, d, success) ==
    IF CreatesDone(success) THEN (DonePath(timestamp) :> <<>>) @@ d ELSE d

(* ----------------------- merge_finished_interval ---------------------- *)

\* The position in the waiting list of the entry for timestamp, 0 if none
FindInterval(list, timestamp) ==
    IF \E k \in 1 .. Len(list) : list[k].timestamp = timestamp
    THEN CHOOSE k \in 1 .. Len(list) :
            /\ list[k].timestamp = timestamp
            /\ \A j \in 1 .. (k - 1) : list[j].timestamp # timestamp
    ELSE 0

\* A new entry for an interval seen for the first time
NewInterval(threadid, timestamp) ==
    [timestamp |-> timestamp, threads_done |-> 1, thread_ids |-> <<threadid>>]

\* Mutant: the counter is not incremented
UpdateInterval_NoCount(e, threadid) ==
    [e EXCEPT !.thread_ids = Append(e.thread_ids, threadid)]

\* Update "finished thread" information
UpdateInterval(e, threadid) ==
    [e EXCEPT !.threads_done = e.threads_done + 1,
              !.thread_ids = Append(e.thread_ids, threadid)]

\* Mutant: a new entry is linked at the head of the list
RecordReport_AtHead(list, threadid, timestamp) ==
    LET k == FindInterval(list, timestamp)
    IN  IF k = 0 THEN <<NewInterval(threadid, timestamp)>> \o list
        ELSE [list EXCEPT ![k] = UpdateInterval(list[k], threadid)]

\* The waiting list after the report of threadid for timestamp was recorded
RecordReport(list, threadid, timestamp) ==
    LET k == FindInterval(list, timestamp)
    IN  IF k = 0 THEN Append(list, NewInterval(threadid, timestamp))
        ELSE [list EXCEPT ![k] = UpdateInterval(list[k], threadid)]

\* Mutant: the merge starts one report early
IntervalComplete_OneShort(e) == e.threads_done >= Threads - 1

\* Have all processing threads reported the interval?
IntervalComplete(e) == e.threads_done = Threads

\* mergestate->waiting = fin->next
UnlinkInterval(list, k) == SubSeq(list, k + 1, Len(list))

(* -------------------------- start_merging_thread ---------------------- *)

\* The number of bad messages at which the merging thread gives up
BadLimit == 100

\* Mutant: the merging thread gives up when the count exceeds the limit
TooManyBad_Exceeds(n) == n > BadLimit

\* The test made after a message of an unknown type was counted
TooManyBad(n) == n >= BadLimit

\* Mutant: the tidy-up frees nothing
FreeAll_Leaks(list, fr) == fr

\* The tidy-up after the receive loop: every remaining pending interval is
\* freed
FreeAll(list, fr) ==
    [t \in DOMAIN fr \cup {list[j].timestamp : j \in 1 .. Len(list)} |->
        Count(fr, t) +
        Cardinality({j \in 1 .. Len(list) : list[j].timestamp = t})]

\* The interim files of an interval that exist but whose reader could not
\* be created
Unopened(rds, d, timestamp) ==
    {i \in ExistingInterims(timestamp, d) : ~rds[i].source}

\* The number of library calls that fail in f
StartFaultCount(timestamp, d, f) ==
    Cardinality(ExistingInterims(timestamp, d) \ f.canread)
        + (IF f.wrok THEN 0 ELSE 1) + (IF f.pktfail = -1 THEN 0 ELSE 1)

\* The library calls that may fail when a merge starts: canread is the set
\* of interim files whose reader can be created, pktfail the reader whose
\* packet buffer cannot be allocated (-1: none), wrok tells whether the
\* output writer can be created.  Calls that are not reached do not fail.
\* Every failure counts against MaxFaults.
MergeStartFaults(timestamp, d) ==
    {f \in [canread : SUBSET ExistingInterims(timestamp, d),
            pktfail : {-1} \cup ExistingInterims(timestamp, d),
            wrok : BOOLEAN] :
        /\ StartFaultCount(timestamp, d, f) <= MaxFaults - faults
        /\ f.pktfail # -1 =>
              /\ f.wrok
              /\ f.pktfail \in f.canread
              /\ \A i \in ExistingInterims(timestamp, d) :
                    i > f.pktfail => i \in f.canread}

\* The merging thread receives the message at the head of the pipe of
\* producer p.
\*   STOP: the loop ends and the remaining pending intervals are freed.
\*   INTERVAL_DONE: the descriptor is closed and merge_finished_interval
\*   records the report.  If the interval is now complete,
\*   write_merged_output creates the readers and the output writer; the
\*   merge loop itself is MergeStep.
\*   Any other type: the message is counted, and with too many of them
\*   exit() ends the capture process.
MergerRecv(p) ==
    /\ mpc = "recv"
    /\ chan[p] # <<>>
    /\ chan' = [chan EXCEPT ![p] = Tail(@)]
    /\ LET msg == Head(chan[p])
           list == RecordReport(waiting, msg.threadid, msg.timestamp)
           k == FindInterval(list, msg.timestamp)
       IN  IF msg.type = "STOP"
           THEN /\ mpc' = "exited"
                /\ waiting' = <<>>
                /\ freed' = FreeAll(waiting, freed)
                /\ UNCHANGED <<fin, readers, mwriter, recvd, created, disk,
                               open_fds, faults, badmessages, mainpc>>
           ELSE IF msg.type # "INTERVAL_DONE"
           THEN /\ badmessages' = badmessages + 1
                /\ IF TooManyBad(badmessages + 1)
                   THEN mpc' = "exit" /\ mainpc' = "exit"
                   ELSE UNCHANGED <<mpc, mainpc>>
                /\ UNCHANGED <<waiting, freed, fin, readers, mwriter, recvd,
                               created, disk, open_fds, faults>>
           ELSE /\ open_fds' = open_fds \ {msg.src_fd}
                /\ UNCHANGED <<badmessages, mainpc>>
                /\ recvd' = Incr(recvd, <<msg.threadid, msg.timestamp>>)
                /\ created' = IF FindInterval(waiting, msg.timestamp) = 0
                              THEN Incr(created, msg.timestamp) ELSE created
                /\ waiting' = list
                /\ UNCHANGED freed
                /\ IF ~IntervalComplete(list[k])
                   THEN UNCHANGED <<mpc, fin, readers, mwriter, disk, faults>>
                   ELSE \E f \in MergeStartFaults(msg.timestamp, disk) :
                        /\ faults' = faults
                              + StartFaultCount(msg.timestamp, disk, f)
                        /\ fin' = k
                        /\ readers' = CreateReaders(readers, msg.timestamp,
                                                    f.canread, f.pktfail)
                        /\ mwriter' = (f.wrok /\ f.pktfail = -1)
                        /\ mpc' = "merging"
                        /\ disk' = IF f.wrok /\ f.pktfail = -1
                                   THEN (MergedPath(msg.timestamp) :> <<>>) @@ disk
                                   ELSE disk
    /\ UNCHANGED <<corsaro_halted, appended, mergelog>>
    /\ UNCHANGED workervars
    /\ UNCHANGED supvars
    /\ UNCHANGED startvars
    /\ UNCHANGED auxvars

\* zmq_recv fails: the merging thread leaves its loop
MergerRecvFails ==
    /\ mpc = "recv"
    /\ faults < MaxFaults
    /\ faults' = faults + 1
    /\ mpc' = "exited"
    /\ waiting' = <<>>
    /\ freed' = FreeAll(waiting, freed)
    /\ UNCHANGED <<fin, readers, mwriter, recvd, created, mergelog, disk,
                   open_fds, chan, corsaro_halted, mainpc, appended,
                   badmessages>>
    /\ UNCHANGED workervars
    /\ UNCHANGED supvars
    /\ UNCHANGED startvars
    /\ UNCHANGED auxvars

\* write_merged_output from the label fail to the clean-up of the readers:
\* the output writer is destroyed and, on success, the ".done" file is
\* created.  ret is what write_merged_output is going to return.
MergeFinish(d, ret, success) ==
    LET e == waiting[fin]
    IN  /\ disk' = DoneCreated(e.timestamp, d, success)
        /\ mergelog' = (e.timestamp :>
                          [ret |-> ret,
                           unopened |-> Unopened(readers, disk, e.timestamp),
                           runs |-> IF e.timestamp \in DOMAIN mergelog
                                    THEN mergelog[e.timestamp].runs + 1
                                    ELSE 1]) @@ mergelog
        /\ mwriter' = FALSE
        /\ mpc' = "cleanup"
        /\ UNCHANGED <<waiting, freed, readers, fin>>

\* The clean-up loop of write_merged_output runs over a reader that still
\* holds the released pointers of an earlier merge (double free, use after
\* free): the process is killed, or the calls happen to do no harm.
Abort ==
    /\ mpc' = "aborted"
    /\ mainpc' = "aborted"
    /\ UNCHANGED <<disk, waiting, freed, readers, fin>>

\* The clean-up of the readers, which deletes the interim files, and the
\* return to merge_finished_interval, which unlinks and frees the entry of
\* the interval
MergeCleanup ==
    /\ mpc = "cleanup"
    /\ \/ /\ disk' = RemoveInterims(readers, disk, 0)
          /\ waiting' = UnlinkInterval(waiting, fin)
          /\ freed' = Incr(freed, waiting[fin].timestamp)
          /\ readers' = [w \in Workers |-> FreedReader]
          /\ fin' = 0
          /\ mpc' = "recv"
          /\ UNCHANGED mainpc
       \/ (\E i \in Workers : readers[i].freed) /\ Abort
    /\ UNCHANGED <<mwriter, mergelog, faults, recvd, created, chan, open_fds,
                   corsaro_halted, appended, badmessages>>
    /\ UNCHANGED workervars
    /\ UNCHANGED supvars
    /\ UNCHANGED startvars
    /\ UNCHANGED auxvars

\* One iteration of the merge loop of write_merged_output (or, if the output
\* writer could not be created, the jump to fail), followed when the loop
\* ends by write_merged_output up to the creation of the ".done" file.
\* writeok: corsaro_write_packet succeeds.
MergeStep ==
    /\ mpc = "merging"
    /\ LET e == waiting[fin]
           c == choose_next_merge_packet(readers, disk)
           out == MergedPath(e.timestamp)
       IN  IF ~mwriter
           THEN MergeFinish(disk, -1, 0) /\ UNCHANGED faults
           ELSE IF c.candind = -1
           THEN MergeFinish(disk, 0, 1) /\ UNCHANGED faults
           ELSE \E writeok \in IF faults < MaxFaults THEN BOOLEAN ELSE {TRUE} :
                IF writeok
                THEN /\ disk' = AppendTo(disk, out, c.readers[c.candind].nextp)
                     /\ readers' = [c.readers EXCEPT
                                       ![c.candind].status = "NOPACKET"]
                     /\ UNCHANGED <<mpc, waiting, fin, mwriter, freed,
                                    mergelog, faults>>
                ELSE /\ MergeFinish(disk, -1, 0)
                     /\ faults' = faults + 1
    /\ UNCHANGED <<recvd, created, chan, open_fds, corsaro_halted, appended,
                   mainpc, badmessages>>
    /\ UNCHANGED workervars
    /\ UNCHANGED supvars
    /\ UNCHANGED startvars
    /\ UNCHANGED auxvars

(* ------------------- driver of the merging thread --------------------- *)

\* The intervals the driver reports
DriverTimes == {k * Interval : k \in 1 .. DriverIntervals}

\* The timestamps of the packets of interval timestamp
TicksOf(timestamp) ==
    (timestamp * TicksPerSec) .. ((timestamp + Interval) * TicksPerSec - 1)

\* The non-empty chronological sequences of at most n timestamps from S
SortedSeqs(S, n) ==
    {q \in UNION {[1 .. m -> S] : m \in 1 .. n} :
        \A i \in 1 .. (Len(q) - 1) : q[i] <= q[i + 1]}

\* The number of packets ever appended to interim files
RECURSIVE TotalLen(_, _)
TotalLen(f, D) ==
    IF D = {} THEN 0
    ELSE LET x == CHOOSE y \in D : TRUE
         IN  Len(f[x]) + TotalLen(f, D \ {x})

\* The driver plays processing thread w finishing interval timestamp: the
\* thread has written the packets with timestamps tss to its interim file (no
\* file if tss is empty) and sends its interval-over message.  The driver
\* hands the merging thread one message at a time, in any order.
DriverReport(w, timestamp, tss) ==
    /\ mpc = "recv"
    /\ \A p \in Producers : chan[p] = <<>>
    /\ Count(recvd, <<w, timestamp>>) = 0
    /\ TotalLen(appended, DOMAIN appended) + Len(tss) <= MaxFilePkts
    /\ LET path == InterimPath(timestamp, w)
           file == [n \in 1 .. Len(tss) |-> Packet(w, n, tss[n])]
       IN  /\ disk' = IF tss = <<>> THEN disk ELSE (path :> file) @@ disk
           /\ appended' = IF tss = <<>> THEN appended
                          ELSE (path :> file) @@ appended
           /\ chan' = [chan EXCEPT ![w] =
                         <<[type |-> "INTERVAL_DONE", threadid |-> w,
                            timestamp |-> timestamp, src_fd |-> -1]>>]
    /\ UNCHANGED <<corsaro_halted, open_fds, mainpc, faults>>
    /\ UNCHANGED workervars
    /\ UNCHANGED mergervars
    /\ UNCHANGED supvars
    /\ UNCHANGED startvars
    /\ UNCHANGED auxvars

\* A message whose type is neither STOP nor INTERVAL_DONE
BadMsg == [type |-> "OTHER", threadid |-> 0, timestamp |-> 0, src_fd |-> -1]

\* The driver pushes a message of an unknown type through the socket of
\* producer p
DriverBad(p) ==
    /\ mpc = "recv"
    /\ badmessages < MaxBad
    /\ \A q \in Producers : chan[q] = <<>>
    /\ chan' = [chan EXCEPT ![p] = <<BadMsg>>]
    /\ UNCHANGED <<corsaro_halted, open_fds, mainpc, faults, disk, appended>>
    /\ UNCHANGED workervars
    /\ UNCHANGED mergervars
    /\ UNCHANGED supvars
    /\ UNCHANGED startvars
    /\ UNCHANGED auxvars

(* ------------------------- the monitor process ------------------------ *)

\* The capture processes forked so far
Forked == {c \in Pids : children[c] # "none"}

\* kill(pid, sig) succeeds for a process that has not been reaped
Killable(pid) == pid \in Pids /\ children[pid] \in {"alive", "zombie"}

\* cleanup_signal in the monitor process: SIGINT or SIGTERM
mon_cleanup_signal ==
    /\ monpc # "exited"
    /\ mon_halted = 0
    /\ mon_halted' = 1
    /\ UNCHANGED <<monpc, mon_restart, child_halted, restart_triggered, runerr,
                   runpid, dec_tmp, children, pidwritten, pidfile, hupped,
                   termed, forwarded, unexpected>>
    /\ UNCHANGED capturevars
    /\ UNCHANGED startvars
    /\ UNCHANGED auxvars

\* restart_signal in the monitor process: SIGHUP, accepted by the rate limit
mon_restart_signal ==
    /\ monpc # "exited"
    /\ mon_restart = 0
    /\ Cardinality(Forked) < MaxChildren
    /\ mon_restart' = 1
    /\ UNCHANGED <<monpc, mon_halted, child_halted, restart_triggered, runerr,
                   runpid, dec_tmp, children, pidwritten, pidfile, hupped,
                   termed, forwarded, unexpected>>
    /\ UNCHANGED capturevars
    /\ UNCHANGED startvars
    /\ UNCHANGED auxvars

\* child_signal: SIGCHLD; waitpid reaps every capture process that has
\* exited, and each adds one to child_halted
child_signal ==
    /\ monpc # "exited"
    /\ LET Z == {c \in Pids : children[c] = "zombie"}
       IN  /\ Z # {}
           /\ children' = [c \in Pids |->
                              IF c \in Z THEN "reaped" ELSE children[c]]
           /\ child_halted' = child_halted + Cardinality(Z)
           /\ unexpected' = unexpected + Cardinality(Z)
                                - (IF forwarded THEN 1 ELSE 0)
           /\ forwarded' = FALSE
    /\ UNCHANGED <<monpc, mon_halted, mon_restart, restart_triggered, runerr,
                   runpid, dec_tmp, pidwritten, pidfile, hupped, termed>>
    /\ UNCHANGED capturevars
    /\ UNCHANGED startvars
    /\ UNCHANGED auxvars

\* run_wdcap in a capture process writes its pid to the pid file
ChildWritesPid(c) ==
    /\ children[c] = "alive"
    /\ c \notin pidwritten
    /\ pidwritten' = pidwritten \cup {c}
    /\ pidfile' = c
    /\ UNCHANGED <<monpc, mon_halted, mon_restart, child_halted,
                   restart_triggered, runerr, runpid, dec_tmp, children,
                   hupped, termed, forwarded, unexpected>>
    /\ UNCHANGED capturevars
    /\ UNCHANGED startvars
    /\ UNCHANGED auxvars

\* A capture process exits: run_wdcap has returned (after a reload, a halt
\* or an error) or the process has died
ChildExits(c) ==
    /\ children[c] = "alive"
    /\ children' = [children EXCEPT ![c] = "zombie"]
    /\ UNCHANGED <<monpc, mon_halted, mon_restart, child_halted,
                   restart_triggered, runerr, runpid, dec_tmp, pidwritten,
                   pidfile, hupped, termed, forwarded, unexpected>>
    /\ UNCHANGED capturevars
    /\ UNCHANGED startvars
    /\ UNCHANGED auxvars

\* get_running_pid: the pid in the pid file, 0 if there is none to read
get_running_pid == pidfile

\* The head of the monitor loop: the halt flag ends it; with a reload
\* requested the pid of the running capture process is looked up
MonLoop ==
    /\ monpc = "loop"
    /\ IF mon_halted = 1
       THEN /\ monpc' = "endwdcap"
            /\ UNCHANGED <<runpid, runerr, restart_triggered>>
       ELSE IF mon_restart = 1
       THEN /\ runpid' = get_running_pid
            /\ IF get_running_pid = 0
               THEN /\ runerr' = 1
                    /\ monpc' = "endwdcap"
                    /\ UNCHANGED restart_triggered
               ELSE /\ restart_triggered' = 1
                    /\ monpc' = "kill"
                    /\ UNCHANGED runerr
       ELSE /\ monpc' = "children"
            /\ UNCHANGED <<runpid, runerr, restart_triggered>>
    /\ UNCHANGED <<mon_halted, mon_restart, child_halted, dec_tmp, children,
                   pidwritten, pidfile, hupped, termed, forwarded, unexpected>>
    /\ UNCHANGED capturevars
    /\ UNCHANGED startvars
    /\ UNCHANGED auxvars

\* kill(runpid, SIGHUP): the reload is forwarded
MonForward ==
    /\ monpc = "kill"
    /\ IF Killable(runpid)
       THEN /\ hupped' = hupped \cup {runpid}
            /\ forwarded' = TRUE
            /\ monpc' = "fork"
            /\ UNCHANGED runerr
       ELSE /\ runerr' = 1
            /\ monpc' = "endwdcap"
            /\ UNCHANGED <<hupped, forwarded>>
    /\ UNCHANGED <<mon_halted, mon_restart, child_halted, restart_triggered,
                   runpid, dec_tmp, children, pidwritten, pidfile, termed,
                   unexpected>>
    /\ UNCHANGED capturevars
    /\ UNCHANGED startvars
    /\ UNCHANGED auxvars

\* The pid of the next capture process
NextPid == Cardinality(Forked) + 1

\* The configuration is read again (initok: init_wdcap_process succeeds), the
\* reload flag is cleared and the replacement capture process is forked
MonFork ==
    /\ monpc = "fork"
    /\ NextPid \in Pids
    /\ \E initok \in BOOLEAN :
        IF initok
        THEN /\ mon_restart' = 0
             /\ children' = [children EXCEPT ![NextPid] = "alive"]
             /\ monpc' = "children"
        ELSE /\ monpc' = "endwdcap"
             /\ UNCHANGED <<mon_restart, children>>
    /\ UNCHANGED <<mon_halted, child_halted, restart_triggered, runerr, runpid,
                   dec_tmp, pidwritten, pidfile, hupped, termed, forwarded,
                   unexpected>>
    /\ UNCHANGED capturevars
    /\ UNCHANGED startvars
    /\ UNCHANGED auxvars

\* Mutant: every exit that was reaped counts as expected
Unexpected_Never(rt) == FALSE

\* The test the monitor makes for each exit that was reaped
Unexpected(rt) == rt = 0

\* One pass of the loop over the exits that were reaped, up to the read of
\* child_halted for its decrement
MonChildren ==
    /\ monpc = "children"
    /\ IF child_halted > 0
       THEN IF Unexpected(restart_triggered)
            THEN /\ runerr' = 1
                 /\ mon_halted' = 1
                 /\ monpc' = "loop"
                 /\ UNCHANGED <<restart_triggered, dec_tmp>>
            ELSE /\ restart_triggered' = 0
                 /\ dec_tmp' = child_halted
                 /\ monpc' = "dec"
                 /\ UNCHANGED <<runerr, mon_halted>>
       ELSE /\ monpc' = "loop"
            /\ UNCHANGED <<runerr, mon_halted, restart_triggered, dec_tmp>>
    /\ UNCHANGED <<mon_restart, child_halted, runpid, children, pidwritten,
                   pidfile, hupped, termed, forwarded, unexpected>>
    /\ UNCHANGED capturevars
    /\ UNCHANGED startvars
    /\ UNCHANGED auxvars

\* The store of "child_halted --": child_signal may have run since the read
MonDecrement ==
    /\ monpc = "dec"
    /\ child_halted' = dec_tmp - 1
    /\ monpc' = "children"
    /\ UNCHANGED <<mon_halted, mon_restart, restart_triggered, runerr, runpid,
                   dec_tmp, children, pidwritten, pidfile, hupped, termed,
                   forwarded, unexpected>>
    /\ UNCHANGED capturevars
    /\ UNCHANGED startvars
    /\ UNCHANGED auxvars

\* Mutant: SIGTERM is sent whatever the error flag
SendsTerm_Always(err) == TRUE

\* endwdcap sends SIGTERM only when no error was flagged
SendsTerm(err) == err = 0

\* endwdcap in main: SIGTERM to the pid in the pid file, then the monitor
\* process exits
MonEnd ==
    /\ monpc = "endwdcap"
    /\ monpc' = "exited"
    /\ IF SendsTerm(runerr)
       THEN /\ runpid' = get_running_pid
            /\ termed' = IF get_running_pid # 0
                         THEN termed \cup {get_running_pid} ELSE termed
       ELSE UNCHANGED <<runpid, termed>>
    /\ UNCHANGED <<mon_halted, mon_restart, child_halted, restart_triggered,
                   runerr, dec_tmp, children, pidwritten, pidfile, hupped,
                   forwarded, unexpected>>
    /\ UNCHANGED capturevars
    /\ UNCHANGED startvars
    /\ UNCHANGED auxvars

(* ------------------ run_wdcap: the start of the threads ---------------- *)

\* The mask run_wdcap installs before it creates threads: the set is
\* initialised with sigemptyset
sig_block_all == {}

\* The threads that exist and do not block signal s
Deliverable(s) == {t \in started : s \notin sigmask[t]}

\* Thread t runs the handler of signal s: cleanup_signal sets the halt flag,
\* restart_signal the reload flag unless its rate limit rejects the signal;
\* child_signal finds no process to reap in a capture process
HandlerRuns(t, s) ==
    /\ handled' = handled \cup {<<t, s>>}
    /\ corsaro_halted' = IF s \in {"SIGINT", "SIGTERM"} THEN 1
                         ELSE corsaro_halted
    /\ corsaro_restart' \in IF s = "SIGHUP" THEN {corsaro_restart, 1}
                            ELSE {corsaro_restart}

\* Signal s is sent to the capture process: it is delivered to one of the
\* threads that do not block it, and stays pending if every thread blocks it
SignalArrives(s) ==
    /\ startpc # "endwdcap"
    /\ Cardinality(handled) + Cardinality(sigpending) < MaxSignals
    /\ IF Deliverable(s) = {}
       THEN /\ sigpending' = sigpending \cup {s}
            /\ UNCHANGED <<handled, corsaro_halted, corsaro_restart>>
       ELSE /\ \E t \in Deliverable(s) : HandlerRuns(t, s)
            /\ UNCHANGED sigpending
    /\ UNCHANGED <<startpc, started, sigmask, sig_before>>
    /\ UNCHANGED <<threads_ended, tls, delivered, first_packet, chan, disk,
                   open_fds, mainpc, faults, appended>>
    /\ UNCHANGED mergervars
    /\ UNCHANGED supvars
    /\ UNCHANGED auxvars

\* A pending signal is delivered to a thread that does not block it
DeliverPending(s) ==
    /\ s \in sigpending
    /\ \E t \in Deliverable(s) : HandlerRuns(t, s)
    /\ sigpending' = sigpending \ {s}
    /\ UNCHANGED <<startpc, started, sigmask, sig_before>>
    /\ UNCHANGED <<threads_ended, tls, delivered, first_packet, chan, disk,
                   open_fds, mainpc, faults, appended>>
    /\ UNCHANGED mergervars
    /\ UNCHANGED supvars
    /\ UNCHANGED auxvars

\* pthread_sigmask(SIG_SETMASK, &sig_block_all, &sig_before); if the call
\* fails run_wdcap gives up
BlockSignals ==
    /\ startpc = "init"
    /\ \E ok \in BOOLEAN :
          IF ok
          THEN /\ sig_before' = sigmask[MainTid]
               /\ sigmask' = [sigmask EXCEPT ![MainTid] = sig_block_all]
               /\ startpc' = "masked"
          ELSE /\ startpc' = "endwdcap"
               /\ UNCHANGED <<sig_before, sigmask>>
    /\ UNCHANGED <<started, sigpending, handled>>
    /\ UNCHANGED capturevars
    /\ UNCHANGED supvars
    /\ UNCHANGED auxvars

\* pthread_create of the merging thread: the new thread inherits the signal
\* mask of the thread that creates it
CreateMerger ==
    /\ startpc = "masked"
    /\ started' = started \cup {MergerTid}
    /\ sigmask' = [sigmask EXCEPT ![MergerTid] = sigmask[MainTid]]
    /\ startpc' = "merger"
    /\ UNCHANGED <<sig_before, sigpending, handled>>
    /\ UNCHANGED capturevars
    /\ UNCHANGED supvars
    /\ UNCHANGED auxvars

\* start_trace_input: trace_pstart creates the processing threads, which
\* inherit the signal mask of the calling thread; if it fails run_wdcap
\* gives up, with the mask as it is
StartWorkers ==
    /\ startpc = "merger"
    /\ \E ok \in BOOLEAN :
          IF ok
          THEN /\ started' = started \cup Workers
               /\ sigmask' = [t \in AllThreads |->
                                 IF t \in Workers THEN sigmask[MainTid]
                                 ELSE sigmask[t]]
               /\ startpc' = "workers"
          ELSE /\ startpc' = "endwdcap"
               /\ UNCHANGED <<started, sigmask>>
    /\ UNCHANGED <<sig_before, sigpending, handled>>
    /\ UNCHANGED capturevars
    /\ UNCHANGED supvars
    /\ UNCHANGED auxvars

\* pthread_sigmask(SIG_SETMASK, &sig_before, NULL): the main thread gets its
\* previous mask back and goes on to wait for the halt flag
RestoreSignals ==
    /\ startpc = "workers"
    /\ \E ok \in BOOLEAN :
          IF ok
          THEN /\ sigmask' = [sigmask EXCEPT ![MainTid] = sig_before]
               /\ startpc' = "running"
          ELSE /\ startpc' = "endwdcap"
               /\ UNCHANGED sigmask
    /\ UNCHANGED <<started, sig_before, sigpending, handled>>
    /\ UNCHANGED capturevars
    /\ UNCHANGED supvars
    /\ UNCHANGED auxvars

(* --------------------- the statistics of an interval ------------------- *)

\* The fields of libtrace_stat_t that corsarowdcap merges and logs, in the
\* order of the MERGE_FIELD and LOG_FIELD lines
StatFields ==
    <<"accepted", "filtered", "received", "dropped", "captured", "missing",
      "errors">>

FieldNames == {StatFields[k] : k \in 1 .. Len(StatFields)}

\* memset(&overall_stats, 0, ...), trace_clear_statistics
ClearedStats == [f \in FieldNames |-> [valid |-> FALSE, val |-> 0]]

\* The statistics a processing thread may hand to the merging thread.  The
\* counter of a field that is not valid may hold any value.
StatInputs ==
    {st \in [FieldNames -> [valid : BOOLEAN, val : 0 .. MaxStat]] :
        Cardinality({f \in FieldNames : st[f] # ClearedStats[f]})
            <= MaxSetFields}

\* Mutant: the counter is added whether or not the field is valid
merge_ltstats_AddsAll(to, from) ==
    [f \in FieldNames |->
        [valid |-> to[f].valid \/ from[f].valid,
         val |-> to[f].val + from[f].val]]

\* merge_ltstats: MERGE_FIELD for every field
merge_ltstats(to, from) ==
    [f \in FieldNames |->
        IF from[f].valid
        THEN [valid |-> TRUE, val |-> to[f].val + from[f].val]
        ELSE to[f]]

\* LOG_FIELD: the line "thread:<threadid> <field>_pkts:<value>"
LOG_FIELD(st, threadid, f) ==
    [thread |-> threadid, field |-> f,
     pkts |-> IF st[f].valid THEN st[f].val ELSE -1]

\* log_ltstats: LOG_FIELD for every field
log_ltstats(st, threadid) ==
    [k \in 1 .. Len(StatFields) |-> LOG_FIELD(st, threadid, StatFields[k])]

\* The loop of write_merged_output over the threads, from thread i on: the
\* lines of each thread are logged and its statistics are merged into the
\* overall statistics, which are logged last with thread id -1.  (The line
\* with the time of the interval and the line with the duration of the merge
\* are left out.)
RECURSIVE LogThreadStats(_, _, _, _)
LogThreadStats(reports, i, overall_stats, lines) ==
    IF i > Threads
    THEN lines \o log_ltstats(overall_stats, -1)
    ELSE LogThreadStats(reports, i + 1,
            merge_ltstats(overall_stats, reports[i].stats),
            lines \o log_ltstats(reports[i].stats, reports[i].threadid))

\* merge_finished_interval stores the thread id and the statistics of the
\* interval-over message of thread w at the next free index
StatReport(w, st) ==
    /\ Len(thread_stats) < Threads
    /\ \A i \in 1 .. Len(thread_stats) : thread_stats[i].threadid # w
    /\ thread_stats' = Append(thread_stats, [threadid |-> w, stats |-> st])
    /\ UNCHANGED statsfile
    /\ UNCHANGED outside_stats

\* write_merged_output writes the ".stats" file of the complete interval
WriteStats ==
    /\ Len(thread_stats) = Threads
    /\ statsfile = <<>>
    /\ statsfile' = LogThreadStats(thread_stats, 1, ClearedStats, <<>>)
    /\ UNCHANGED thread_stats
    /\ UNCHANGED outside_stats

Next ==
    \/ cleanup_signal
    \/ restart_signal
    \/ \E w \in Workers : Deliver(w)
    \/ MainStopTrace
    \/ MainSendStop
    \/ MainJoinMerger
    \/ \E p \in Producers : MergerRecv(p)
    \/ MergerRecvFails
    \/ MergeStep
    \/ MergeCleanup

Spec == Init /\ [][Next]_vars

\* The scheduling of the threads of a capture process: the main thread and
\* the merging thread take the steps they can take.  Whether a packet
\* arrives for a processing thread is up to the network, and a processing
\* thread runs only in the callback for a packet.
ThreadFair ==
    /\ WF_vars(MainStopTrace)
    /\ WF_vars(MainSendStop)
    /\ WF_vars(MainJoinMerger)
    /\ \A p \in Producers : WF_vars(MergerRecv(p))
    /\ WF_vars(MergeStep)
    /\ WF_vars(MergeCleanup)

\* The capture process with fairly scheduled threads
LiveSpec == Init /\ [][Next]_vars /\ ThreadFair

\* The merging thread alone, driven with arbitrary reports
MergerNext ==
    \/ \E w \in Workers, timestamp \in DriverTimes :
          \E tss \in {<<>>} \cup SortedSeqs(TicksOf(timestamp), MaxFilePkts) :
             DriverReport(w, timestamp, tss)
    \/ \E p \in Producers : MergerRecv(p)
    \/ MergeStep
    \/ MergeCleanup

MergerSpec == Init /\ [][MergerNext]_vars

\* The merging thread fed with messages of an unknown type, while one
\* interval is pending
BadNext ==
    \/ DriverReport(0, Interval, <<>>)
    \/ \E p \in Producers : DriverBad(p)
    \/ \E p \in Producers : MergerRecv(p)

BadSpec == Init /\ [][BadNext]_vars

\* The monitor process and the capture processes it forks
SupNext ==
    \/ mon_cleanup_signal
    \/ mon_restart_signal
    \/ child_signal
    \/ \E c \in Pids : ChildWritesPid(c)
    \/ \E c \in Pids : ChildExits(c)
    \/ MonLoop
    \/ MonForward
    \/ MonFork
    \/ MonChildren
    \/ MonDecrement
    \/ MonEnd

SupSpec == Init /\ [][SupNext]_vars

\* run_wdcap is about to create the threads of a capture process: only the
\* main thread exists, with the signal mask it was started with
StartInit ==
    /\ BaseInit
    /\ startpc = "init"
    /\ started = {MainTid}
    /\ sigmask \in {m \in [AllThreads -> SUBSET Signals] :
                       \A t \in AllThreads \ {MainTid} : m[t] = {}}
    /\ sig_before = {}
    /\ sigpending = {}
    /\ handled = {}
    /\ AuxInit

\* The start of the threads of a capture process, with signals arriving
StartNext ==
    \/ BlockSignals
    \/ CreateMerger
    \/ StartWorkers
    \/ RestoreSignals
    \/ \E s \in Signals : SignalArrives(s)
    \/ \E s \in Signals : DeliverPending(s)

StartSpec == StartInit /\ [][StartNext]_vars

\* The statistics of one interval: every thread reports, then the ".stats"
\* file is written
StatsNext ==
    \/ \E w \in Workers, st \in StatInputs : StatReport(w, st)
    \/ WriteStats

StatsSpec == Init /\ [][StatsNext]_vars

(* --------------------------- the memory handler ----------------------- *)

\* handler->items_per_blob, the itemsperalloc of init_corsaro_memhandler
items_per_blob == ItemsPerBlob

\* The blob a fresh call of create_fresh_blob returns: nothing handed out,
\* nothing released, on no free list
create_fresh_blob(itemcount) ==
    [alloceditems |-> itemcount, nextavail |-> 0, released |-> 0,
     nextfree |-> NULL, mapped |-> TRUE]

\* The blob after the three assignments that make it ready for reuse
ResetBlob(blob) ==
    [blob EXCEPT !.nextavail = 0, !.released = 0, !.nextfree = NULL]

\* The reference of the next blob that malloc returns: blobs are numbered
\* in the order of their creation and a number is never given twice
FreshRef(bl) == Len(bl) + 1

\* get_corsaro_memhandler_item finds the current blob full
BlobFull(h, bl) ==
    bl[h.current].nextavail >= bl[h.current].alloceditems

\* The handler and the blobs after the choice of the blob the next item is
\* taken from.  mmap_ok is the outcome of mmap in create_fresh_blob; with
\* mmap failing the current blob is NULL.
ChooseBlob(h, bl, mmap_ok) ==
    IF ~BlobFull(h, bl)
    THEN [handler |-> h, blobs |-> bl]
    ELSE IF bl[h.current].released = bl[h.current].alloceditems
    THEN [handler |-> h,
          blobs |-> [bl EXCEPT ![h.current] = ResetBlob(@)]]
    ELSE IF h.freelist = NULL
    THEN [handler |-> [h EXCEPT !.current = IF mmap_ok THEN FreshRef(bl)
                                                        ELSE NULL,
                                !.unreleased = @ + 1],
          blobs |-> IF mmap_ok
                    THEN Append(bl, create_fresh_blob(items_per_blob))
                    ELSE bl]
    ELSE [handler |-> [h EXCEPT !.current = h.freelist,
                                !.freelist = bl[h.freelist].nextfree,
                                !.freelistavail = @ - 1,
                                !.unreleased = @ + 1],
          blobs |-> [bl EXCEPT ![h.freelist] = ResetBlob(@)]]

\* get_corsaro_memhandler_item, under the mutex of the handler.  The item
\* is the slot nextavail of the current blob.  A current blob of NULL is
\* dereferenced, which ends the process.
get_corsaro_memhandler_item(mmap_ok) ==
    /\ ~mh_crashed
    /\ (BlobFull(memhandler, memblobs)
        /\ memblobs[memhandler.current].released
               # memblobs[memhandler.current].alloceditems
        /\ memhandler.freelist = NULL) => Len(memblobs) < MaxBlobs
    /\ LET chosen == ChooseBlob(memhandler, memblobs, mmap_ok)
           h == chosen.handler
           bl == chosen.blobs
       IN  IF h.current = NULL
           THEN /\ mh_crashed' = TRUE
                /\ memhandler' = h
                /\ memblobs' = bl
                /\ UNCHANGED <<mh_held, mh_ret>>
           ELSE /\ memhandler' = h
                /\ memblobs' = [bl EXCEPT ![h.current].nextavail = @ + 1]
                /\ mh_ret' = [itemsource |-> h.current,
                              slot |-> bl[h.current].nextavail]
                /\ mh_held' = mh_held \cup {mh_ret'}
                /\ UNCHANGED mh_crashed
    /\ mh_last' = "get"
    /\ UNCHANGED outside_mem

\* release_corsaro_memhandler_item puts a blob on the free list
Recyclable_AnyBlob(h, bl, itemsource) ==
    bl[itemsource].released = items_per_blob

Recyclable(h, bl, itemsource) ==
    /\ itemsource # h.current
    /\ bl[itemsource].released = items_per_blob

\* The loop that returns the blobs in excess on the free list to the
\* system, from the head of the list
RECURSIVE TrimFreeList(_, _)
TrimFreeList(h, bl) ==
    IF h.freelistavail > MaxFreeList /\ h.freelist # NULL
    THEN TrimFreeList([h EXCEPT !.freelist = bl[h.freelist].nextfree,
                                !.freelistavail = @ - 1],
                      [bl EXCEPT ![h.freelist].mapped = FALSE])
    ELSE [handler |-> h, blobs |-> bl]

\* release_corsaro_memhandler_item, under the mutex of the handler, for an
\* item the caller holds
release_corsaro_memhandler_item(item) ==
    /\ ~mh_crashed
    /\ item \in mh_held
    /\ LET itemsource == item.itemsource
           bl == [memblobs EXCEPT ![itemsource].released = @ + 1]
           listed == Recyclable(memhandler, bl, itemsource)
           h1 == IF listed
                 THEN [memhandler EXCEPT !.freelist = itemsource,
                                         !.freelistavail = @ + 1,
                                         !.unreleased = @ - 1]
                 ELSE memhandler
           bl1 == IF listed
                  THEN [bl EXCEPT ![itemsource].nextfree = memhandler.freelist]
                  ELSE bl
           trimmed == TrimFreeList(h1, bl1)
       IN  IF bl[itemsource].released > items_per_blob
           THEN /\ memblobs' = bl
                /\ UNCHANGED memhandler
           ELSE /\ memhandler' = trimmed.handler
                /\ memblobs' = trimmed.blobs
    /\ mh_held' = mh_held \ {item}
    /\ mh_last' = "release"
    /\ UNCHANGED <<mh_ret, mh_crashed>>
    /\ UNCHANGED outside_mem

\* The callers of the memory handler: any thread gets an item or releases
\* an item it holds, one call at a time under the mutex
MemNext ==
    \/ \E mmap_ok \in BOOLEAN : get_corsaro_memhandler_item(mmap_ok)
    \/ \E item \in Items : release_corsaro_memhandler_item(item)

MemSpec == Init /\ [][MemNext]_vars

(* ------------------ the report plugin: processing thread --------------- *)

\* The IP tracker threads, conf->tracker_count of them
TrackerIds == 0 .. (Trackers - 1)

\* The message types of corsaro_report_ipmsg_header_t
CORSARO_IP_MESSAGE_UPDATE == "UPDATE"
CORSARO_IP_MESSAGE_INTERVAL == "INTERVAL"
CORSARO_IP_MESSAGE_RESET == "RESET"

\* state->threadid, the processing thread of the model
ReportThread == 0

\* track->seqno ++.  The counter is a uint32_t; the sequence numbers of the
\* model stay far below the value at which it wraps.
NextSeqno(seqno) == seqno + 1

\* zmq_send on the queue of a tracker.  A part sent with ZMQ_SNDMORE waits
\* for the last part of its message; a failing call sends nothing.
zmq_send(sock, part, sndmore, ok) ==
    IF ~ok THEN sock
    ELSE IF sndmore THEN [sock EXCEPT !.more = Append(@, part)]
    ELSE [queue |-> Append(sock.queue, sock.more \o <<part>>),
          more |-> <<>>]

\* The buffer behind the header, as one part of a message
BodyPart(track) == [msgtype |-> "body", bodies |-> track.bodies]

\* send_iptracker_message: the sequence number is taken, the header and
\* the buffered updates are sent as the two parts of one message, and the
\* buffer is emptied once both are sent.  ret is the return value.
send_iptracker_message(track, sock, ok_header, ok_body) ==
    LET numbered == [track EXCEPT !.header.seqno = track.seqno,
                                  !.seqno = NextSeqno(@)]
        sent1 == zmq_send(sock, numbered.header, TRUE, ok_header)
        sent2 == zmq_send(sent1, BodyPart(numbered), FALSE, ok_body)
    IN  IF ~ok_header THEN [track |-> numbered, sock |-> sock, ret |-> -1]
        ELSE IF ~ok_body THEN [track |-> numbered, sock |-> sent1, ret |-> -1]
        ELSE [track |-> [numbered EXCEPT !.bodies = 0,
                                         !.header.bodycount = 0,
                                         !.header.seqno = 0,
                                         !.header.timestamp = 0],
              sock |-> sent2, ret |-> 0]

\* update_metrics_for_address for an address that hashes to this tracker:
\* one more update is buffered and a full batch is sent
update_metrics_for_address(track, sock, ok_header, ok_body) ==
    LET added == [track EXCEPT !.header.bodycount = @ + 1, !.bodies = @ + 1]
    IN  IF added.header.bodycount < REPORT_BATCH_SIZE
        THEN [track |-> added, sock |-> sock, ret |-> 1]
        ELSE LET sent == send_iptracker_message(added, sock, ok_header,
                                                ok_body)
             IN  [sent EXCEPT !.ret = IF sent.ret < 0 THEN -1 ELSE 1]

\* The end-of-interval message of corsaro_report_end_interval
EndMessage(complete, timestamp, seqno) ==
    [msgtype |-> IF complete # 0 THEN CORSARO_IP_MESSAGE_INTERVAL
                 ELSE CORSARO_IP_MESSAGE_RESET,
     sender |-> ReportThread, timestamp |-> timestamp, bodycount |-> 0,
     seqno |-> seqno]

\* The body of the loop of corsaro_report_end_interval for one tracker:
\* outstanding updates are sent, a failure is logged, and the
\* end-of-interval message follows with the next sequence number
EndIntervalFor(track, sock, complete, timestamp, ok_header, ok_body, ok_end) ==
    LET flushed == IF track.header.bodycount > 0
                   THEN send_iptracker_message(track, sock, ok_header,
                                               ok_body)
                   ELSE [track |-> track, sock |-> sock, ret |-> 0]
    IN  [track |-> [flushed.track EXCEPT !.seqno = NextSeqno(@)],
         sock |-> zmq_send(flushed.sock,
                           EndMessage(complete, timestamp,
                                      flushed.track.seqno),
                           FALSE, ok_end)]

\* The number of calls of zmq_send that fail among the outcomes oks
Failures(oks) == Cardinality({k \in DOMAIN oks : ~oks[k]})

\* corsaro_report_start_interval
corsaro_report_start_interval ==
    /\ rp_phase = "idle"
    /\ current_interval < MaxReportIntervals
    /\ current_interval' = current_interval + 1
    /\ rp_phase' = "open"
    /\ rp_last' = "start_interval"
    /\ UNCHANGED <<totracker, tracker_queues, rp_pkts, rp_faults>>
    /\ UNCHANGED outside_rep

\* corsaro_report_process_packet for a packet whose source address hashes
\* to tracker s and whose destination address hashes to tracker d
corsaro_report_process_packet(s, d, oks) ==
    /\ rp_phase = "open"
    /\ rp_pkts < MaxReportPkts
    /\ rp_faults + Failures(oks) <= MaxSendFaults
    /\ LET src == update_metrics_for_address(totracker[s],
                      tracker_queues[s], oks[1], oks[2])
           tr1 == [totracker EXCEPT ![s] = src.track]
           qu1 == [tracker_queues EXCEPT ![s] = src.sock]
           dst == update_metrics_for_address(tr1[d], qu1[d], oks[3], oks[4])
       IN  IF src.ret < 0
           THEN /\ totracker' = tr1
                /\ tracker_queues' = qu1
           ELSE /\ totracker' = [tr1 EXCEPT ![d] = dst.track]
                /\ tracker_queues' = [qu1 EXCEPT ![d] = dst.sock]
    /\ rp_pkts' = rp_pkts + 1
    /\ rp_faults' = rp_faults + Failures(oks)
    /\ rp_last' = "process_packet"
    /\ UNCHANGED <<current_interval, rp_phase>>
    /\ UNCHANGED outside_rep

\* corsaro_report_end_interval
corsaro_report_end_interval(complete, oks) ==
    /\ rp_phase = "open"
    /\ rp_faults + Failures(oks) <= MaxSendFaults
    /\ LET ended == [i \in TrackerIds |->
                       EndIntervalFor(totracker[i], tracker_queues[i],
                           complete, current_interval,
                           oks[3 * i + 1], oks[3 * i + 2], oks[3 * i + 3])]
       IN  /\ totracker' = [i \in TrackerIds |-> ended[i].track]
           /\ tracker_queues' = [i \in TrackerIds |-> ended[i].sock]
    /\ rp_faults' = rp_faults + Failures(oks)
    /\ rp_phase' = "idle"
    /\ rp_last' = "end_interval"
    /\ UNCHANGED <<current_interval, rp_pkts>>
    /\ UNCHANGED outside_rep

\* The callbacks of the report plugin in one processing thread
ReportNext ==
    \/ corsaro_report_start_interval
    \/ \E s \in TrackerIds, d \in TrackerIds, oks \in [1 .. 4 -> BOOLEAN] :
          corsaro_report_process_packet(s, d, oks)
    \/ \E complete \in {0, 1}, oks \in [1 .. (3 * Trackers) -> BOOLEAN] :
          corsaro_report_end_interval(complete, oks)

ReportSpec == Init /\ [][ReportNext]_vars

(* ------------------------- the built-in filters ------------------------ *)

\* The filters of the model.  CORSARO_FILTERID_MAX is the id of no filter.
CORSARO_FILTERID_SPOOFED == "SPOOFED"
CORSARO_FILTERID_ERRATIC == "ERRATIC"
CORSARO_FILTERID_ROUTED == "ROUTED"
CORSARO_FILTERID_MAX == "MAX"

FilterIds == {CORSARO_FILTERID_SPOOFED, CORSARO_FILTERID_ERRATIC,
              CORSARO_FILTERID_ROUTED, CORSARO_FILTERID_MAX}

\* A packet, as far as the filters tell packets apart: one of the filters
\* of _apply_spoofing_filter matches it, one of the other filters of
\* _apply_erratic_filter matches it, _apply_rfc5735_filter matches it
FilterPackets == [spoofing : BOOLEAN, other : BOOLEAN, rfc5735 : BOOLEAN]

\* The lists of filters to run, no result set
RECURSIVE ToRunLists(_)
ToRunLists(n) ==
    IF n = 0 THEN {<<>>}
    ELSE ToRunLists(n - 1) \cup
         {Append(l, [filterid |-> id, result |-> 0]) :
              l \in {q \in ToRunLists(n - 1) : Len(q) = n - 1},
              id \in FilterIds}

\* A value stored in a uint8_t
ToUint8(x) == x % UINT8_RANGE

\* _apply_spoofing_filter
apply_spoofing_filter(fparams) == IF fparams.spoofing THEN 1 ELSE 0

\* _apply_erratic_filter
apply_erratic_filter(fparams, spoofedstateunknown) ==
    IF spoofedstateunknown /\ apply_spoofing_filter(fparams) > 0 THEN 1
    ELSE IF fparams.other THEN 1
    ELSE 0

\* _apply_routable_filter
apply_routable_filter(fparams) == IF fparams.rfc5735 THEN 1 ELSE 0

\* The loop of corsaro_apply_multiple_filters from entry i on, spoofedstate
\* being a uint8_t.  The list with the results set so far and the return
\* value.
RECURSIVE RunFilters(_, _, _, _)
RunFilters(list, i, spoofedstate, fparams) ==
    IF i > Len(list) THEN [torun |-> list, ret |-> 0]
    ELSE IF list[i].filterid = CORSARO_FILTERID_SPOOFED
    THEN LET result == apply_spoofing_filter(fparams)
         IN  RunFilters([list EXCEPT ![i].result = result], i + 1,
                        IF result # 0 THEN ToUint8(1) ELSE ToUint8(0),
                        fparams)
    ELSE IF list[i].filterid = CORSARO_FILTERID_ERRATIC
    THEN RunFilters([list EXCEPT ![i].result =
                        IF spoofedstate = 1 THEN 1
                        ELSE apply_erratic_filter(fparams, spoofedstate < 0)],
                    i + 1, spoofedstate, fparams)
    ELSE IF list[i].filterid = CORSARO_FILTERID_ROUTED
    THEN RunFilters([list EXCEPT ![i].result =
                        apply_routable_filter(fparams)],
                    i + 1, spoofedstate, fparams)
    ELSE [torun |-> list, ret |-> -1]

\* The result of corsaro_apply_filter_by_id for one of the filters
FilterById(filtid, fparams) ==
    IF filtid = CORSARO_FILTERID_MAX THEN -1
    ELSE IF filtid = CORSARO_FILTERID_SPOOFED
    THEN apply_spoofing_filter(fparams)
    ELSE IF filtid = CORSARO_FILTERID_ERRATIC
    THEN apply_erratic_filter(fparams, TRUE)
    ELSE apply_routable_filter(fparams)

\* corsaro_apply_multiple_filters on a packet and a list of filters.  The
\* function keeps nothing from one packet to the next: one packet is
\* filtered.
corsaro_apply_multiple_filters(fparams, list) ==
    /\ flt_packet = <<>>
    /\ LET run == RunFilters(list, 1, ToUint8(-1), fparams)
       IN  /\ flt_torun' = run.torun
           /\ flt_ret' = run.ret
    /\ flt_packet' = <<fparams>>
    /\ flt_asked' = list
    /\ flt_byid' = <<>>
    /\ UNCHANGED outside_flt

\* corsaro_apply_filter_by_id on the packet
corsaro_apply_filter_by_id(filtid) ==
    /\ flt_packet # <<>>
    /\ flt_byid' = <<[filterid |-> filtid,
                      result |-> FilterById(filtid, flt_packet[1])]>>
    /\ UNCHANGED <<flt_packet, flt_asked, flt_torun, flt_ret>>
    /\ UNCHANGED outside_flt

\* The callers of the filters
FilterNext ==
    \/ \E fparams \in FilterPackets, list \in ToRunLists(MaxToRun) :
          corsaro_apply_multiple_filters(fparams, list)
    \/ \E filtid \in FilterIds : corsaro_apply_filter_by_id(filtid)

FilterSpec == Init /\ [][FilterNext]_vars

(* =============================== claims =============================== *)

\* The timestamps of the interval of a merged output file on disk
MergedTimes(d) == {path[1] : path \in {q \in DOMAIN d : q[2] = -1 /\ q[3] = 0}}

\* The intervals whose ".done" file exists
DoneTimes(d) == {path[1] : path \in {q \in DOMAIN d : q[2] = -1 /\ q[3] = 1}}

\* A sequence of packets is in chronological order
Chronological(q) ==
    \A i \in 1 .. (Len(q) - 1) : ErfTimestamp(q[i]) <= ErfTimestamp(q[i + 1])

\* C1: with interim files that are each in chronological order, the packets
\* written so far to the merged output of an interval are in chronological
\* order, at every step of the merge and after it.
C1_MergedChronological ==
    (\A path \in DOMAIN appended : Chronological(appended[path]))
        => \A timestamp \in MergedTimes(disk) :
              Chronological(disk[MergedPath(timestamp)])

\* C1 witness: a finished merge wrote three packets, and took a packet of
\* thread 0 after a packet of thread 1 with a later packet of thread 1
\* still to come.
C1_Witness ==
    \E timestamp \in DoneTimes(disk) :
        LET out == disk[MergedPath(timestamp)]
        IN  /\ Len(out) >= 3
            /\ \E i \in 1 .. (Len(out) - 2) :
                  /\ out[i].w = 1 /\ out[i + 1].w = 0 /\ out[i + 2].w = 1
                  /\ ErfTimestamp(out[i]) < ErfTimestamp(out[i + 1])
                  /\ ErfTimestamp(out[i + 1]) < ErfTimestamp(out[i + 2])

\* The next packet reader i has to offer: the buffered one, or the next one
\* of its file; NoPacket at end-of-stream.
Offered(rd, d) ==
    LET file == Content(d, BarePath(rd.uri))
    IN  IF rd.status = "PACKET" THEN rd.nextp
        ELSE IF rd.status = "NOPACKET" /\ rd.pos < Len(file)
        THEN file[rd.pos + 1]
        ELSE NoPacket

\* C2: in every state of a merge, choose_next_merge_packet returns -1
\* exactly when every reader is at end-of-stream, and otherwise the lowest
\* index among the readers whose next packet has the minimum timestamp.
C2_ChoosesEarliestLowestIndex ==
    (mpc = "merging" /\ mwriter) =>
        LET c == choose_next_merge_packet(readers, disk).candind
            live == {i \in Workers : Offered(readers[i], disk) # NoPacket}
            ts(i) == ErfTimestamp(Offered(readers[i], disk))
        IN  /\ (c = -1) <=> (live = {})
            /\ c # -1 =>
                  /\ c \in live
                  /\ \A i \in live : ts(c) <= ts(i)
                  /\ \A i \in live : ts(i) = ts(c) => c <= i

\* C2 witness: thread 1 has already had a packet written, and now two
\* readers offer packets with the same timestamp; thread 0 is chosen.
C2_Witness ==
    /\ mpc = "merging" /\ mwriter
    /\ readers[0].status = "PACKET" /\ readers[1].status = "NOPACKET"
    /\ readers[1].pos >= 1
    /\ Offered(readers[1], disk) # NoPacket
    /\ ErfTimestamp(Offered(readers[0], disk))
          = ErfTimestamp(Offered(readers[1], disk))
    /\ choose_next_merge_packet(readers, disk).candind = 0

(* ---- C3, C4: which packets a merged file holds ---- *)

\* The set of the elements of a sequence
Range(q) == {q[i] : i \in 1 .. Len(q)}

\* The packets ever appended to the interim file of thread w for an interval
InterimPackets(timestamp, w) == Content(appended, InterimPath(timestamp, w))

RECURSIVE InterimCount(_, _)
InterimCount(timestamp, i) ==
    IF i >= Threads THEN 0
    ELSE Len(InterimPackets(timestamp, i)) + InterimCount(timestamp, i + 1)

\* The packets delivered so far
DeliveredPackets ==
    UNION {{Packet(w, n, delivered[w][n]) : n \in 1 .. Len(delivered[w])} :
              w \in Workers}

\* The interval whose interim file a packet with timestamp ts belongs to:
\* the first interval of the run is named by the second of the first packet
\* and ends on the next multiple of the interval length; every later
\* interval starts on a multiple.
AssignedInterval(ts) ==
    LET F == Sec(first_packet)
    IN  IF Sec(ts) < F - (F % Interval) + Interval THEN F
        ELSE Sec(ts) - (Sec(ts) % Interval)

\* The merge of the interval ran to its end without an error and every
\* interim file of the interval was opened
MergedWhole(timestamp) ==
    /\ timestamp \in DOMAIN mergelog
    /\ mergelog[timestamp].ret = 0
    /\ mergelog[timestamp].unopened = {}

SentBy(w) == SubSeq(chan'[w], Len(chan[w]) + 1, Len(chan'[w]))

\* C5: a thread appends a packet only to the interim file named by its
\* current interval T0, and T0 <= second of the packet < T0 + interval; an
\* interval-over message that hands over the descriptor of an interim file
\* carries the T0 that names the file.
C5_AppendedInCurrentInterval ==
    [][\A w \in Workers :
          /\ \A path \in DOMAIN appended' :
                (path[2] = w /\ Content(appended, path) # appended'[path]) =>
                    LET p == appended'[path][Len(appended'[path])]
                        T0 == tls'[w].time
                    IN  /\ appended'[path] = Append(Content(appended, path), p)
                        /\ path = InterimPath(T0, w)
                        /\ BarePath(tls'[w].interimfilename) = path
                        /\ T0 <= Sec(p.ts) /\ Sec(p.ts) < T0 + Interval
                        /\ Sec(p.ts) < tls'[w].next_report
          /\ chan'[w] # chan[w] /\ Len(chan'[w]) > Len(chan[w]) =>
                \A k \in 1 .. Len(SentBy(w)) :
                    SentBy(w)[k].src_fd # -1 =>
                        /\ k = 1
                        /\ SentBy(w)[k].src_fd = tls[w].fd
                        /\ BarePath(tls[w].interimfilename)
                              = InterimPath(SentBy(w)[k].timestamp, w)
      ]_vars

\* C5 witness: a thread has appended packets to the interim files of two
\* intervals and has handed over the descriptor of the first.
C5_Witness ==
    \E w \in Workers : \E p1, p2 \in DOMAIN appended :
        /\ p1[2] = w /\ p2[2] = w /\ p1[1] < p2[1]
        /\ appended[p1] # <<>> /\ appended[p2] # <<>>
        /\ tls[w].time = p2[1] /\ tls[w].fd # -1
        /\ \E k \in 1 .. Len(chan[w]) :
              chan[w][k].timestamp = p1[1] /\ chan[w][k].src_fd # -1

(* ---- C6, C7: when a merge starts ---- *)

\* The threads whose interval-over message for the interval has been handled
Reported(rc, timestamp) == {w \in Workers : Count(rc, <<w, timestamp>>) > 0}

\* C6: the merge of an interval starts only in the step that handles the
\* interval-over message of the last thread still missing for that interval;
\* every thread has then reported it.
C6_MergeStartsAtLastReport ==
    [][(mpc = "recv" /\ mpc' = "merging") =>
          LET T0 == waiting'[fin'].timestamp
          IN  /\ Reported(recvd', T0) = Workers
              /\ Cardinality(Reported(recvd, T0)) = Threads - 1
              /\ waiting'[fin'].threads_done = Threads
              /\ Range(waiting'[fin'].thread_ids) = Workers
      ]_vars

\* C6 witness: a merge has started while a later interval, reported by one
\* thread only, waits behind it.
C6_Witness ==
    /\ mpc = "merging"
    /\ Len(waiting) = 2
    /\ fin = 1
    /\ waiting[2].threads_done < Threads
    /\ waiting[1].timestamp < waiting[2].timestamp

\* C7: every pending interval has been reported by at least one and at most
\* Threads threads, and holds one thread id per report.
C7_ThreadsDoneInRange ==
    \A k \in 1 .. Len(waiting) :
        /\ 0 < waiting[k].threads_done
        /\ waiting[k].threads_done <= Threads
        /\ Len(waiting[k].thread_ids) = waiting[k].threads_done

\* C7 witness: two intervals are pending with one report each, and the
\* interval-over message that completes the older one is in the queue.
C7_Witness ==
    /\ mpc = "recv"
    /\ Len(waiting) = 2
    /\ waiting[1].threads_done = Threads - 1
    /\ waiting[2].threads_done = 1
    /\ \E p \in Workers :
          /\ chan[p] # <<>>
          /\ Head(chan[p]).timestamp = waiting[1].timestamp

(* ---- C8, C9: intervals completed out of order ---- *)

\* C8: for every interval that all threads have reported, exactly one pending
\* interval was created, and it has been freed once the merging thread is
\* back in its receive loop.
C8_OneEntryPerInterval ==
    \A timestamp \in {k[2] : k \in DOMAIN recvd} :
        (mpc = "recv" /\ Reported(recvd, timestamp) = Workers) =>
            /\ Count(created, timestamp) = 1
            /\ Count(freed, timestamp) = 1

\* C9: an interval that all threads have reported has been merged once the
\* merging thread is back in its receive loop, in whatever order the
\* intervals were completed: if no library call has failed its ".done" file
\* exists.
C9_EveryCompletedIntervalDone ==
    \A timestamp \in {k[2] : k \in DOMAIN recvd} :
        (mpc = "recv" /\ faults = 0 /\ Reported(recvd, timestamp) = Workers) =>
            DonePath(timestamp) \in DOMAIN disk

(* ---- C10: the ".done" file ---- *)

C11_InterimsDeletedAfterSuccess ==
    \A timestamp \in DOMAIN mergelog :
        (mergelog[timestamp].ret = 0 /\ mpc # "cleanup") =>
            \A w \in Workers : InterimPath(timestamp, w) \notin DOMAIN disk

(* ---- C12: ownership of the interim file descriptors ---- *)

\* The descriptors carried by the messages of a queue
InFlightFds(ch) ==
    UNION {{ch[p][k].src_fd : k \in 1 .. Len(ch[p])} : p \in Producers} \ {-1}

\* The descriptors held by the writers of the processing threads
HeldFds(tl) == {tl[w].fd : w \in Workers} \ {-1}

\* C12: a step of a processing thread closes no descriptor, and a packet is
\* appended only through an open descriptor that is in no interval-over
\* message and is held by no other thread; the merging thread closes the
\* descriptor of the message it handles, which is open until then and is
\* held by no writer and carried by no other message, and closes nothing for
\* a message without descriptor; the descriptors the main thread closes at
\* the end are open and were never handed over.
C12_DescriptorOwnership ==
    [][/\ \A w \in Workers :
            delivered'[w] # delivered[w] =>
                /\ open_fds \subseteq open_fds'
                /\ appended' # appended =>
                      /\ tls'[w].fd \in open_fds'
                      /\ tls'[w].fd \notin InFlightFds(chan')
                      /\ \A v \in Workers \ {w} : tls'[v].fd # tls'[w].fd
       /\ \A p \in Producers :
            (mpc = "recv" /\ chan[p] # <<>> /\ chan'[p] = Tail(chan[p])) =>
                LET msg == Head(chan[p])
                IN  IF msg.type = "INTERVAL_DONE" /\ msg.src_fd # -1
                    THEN /\ msg.src_fd \in open_fds
                         /\ open_fds' = open_fds \ {msg.src_fd}
                         /\ msg.src_fd \notin HeldFds(tls)
                         /\ msg.src_fd \notin InFlightFds(chan')
                    ELSE open_fds' = open_fds
       /\ (mainpc = "joining" /\ mainpc' = "done") =>
            /\ HeldFds(tls) \subseteq open_fds
            /\ HeldFds(tls) \cap InFlightFds(chan) = {}
            /\ open_fds' = open_fds \ HeldFds(tls)
      ]_vars

\* C12 witness: the merging thread has closed the first descriptor that was
\* handed over while a processing thread writes through a later one.
C12_Witness ==
    /\ mainpc = "running"
    /\ 0 \notin open_fds
    /\ HeldFds(tls) = {1}
    /\ InFlightFds(chan) = {}
    /\ \E k \in DOMAIN recvd : recvd[k] = 1

(* ---- C13: descriptors after shutdown ---- *)

\* C13: when the shutdown of the capture process is complete and no library
\* call has failed, no descriptor of an interim file is open.
C13_NoDescriptorLeftOpen ==
    (mainpc = "done" /\ faults = 0) => open_fds = {}

(* ---- C14: one interval-over message per interval ---- *)

\* The first multiple of the interval length after timestamp
NextBoundary(timestamp) == timestamp - (timestamp % Interval) + Interval

\* How many interval-over messages of thread w for an interval are queued
Queued(ch, w, timestamp) ==
    Cardinality({k \in 1 .. Len(ch[w]) : ch[w][k].timestamp = timestamp})

\* C14: the messages a thread sends while handling a packet name, one each
\* and in order, the intervals it leaves: the first names its current
\* interval and carries the descriptor of its interim file (-1 if it has
\* none), every further one names the next interval and carries -1; a
\* message with a descriptor is sent only for an interval whose interim file
\* exists; no interval is named twice by one thread.  When the merge of an
\* interval starts, no reader is opened for a thread that has no interim
\* file for it.
C14_OneMessagePerInterval ==
    [][/\ \A w \in Workers :
            delivered'[w] # delivered[w] =>
                LET S == SentBy(w)
                    start == IF tls[w].time = 0 THEN Sec(first_packet')
                             ELSE tls[w].time
                IN  /\ tls'[w].time # 0 /\ tls'[w].time # start => Len(S) >= 1
                    /\ Len(S) >= 1 =>
                          /\ S[1].timestamp = start
                          /\ S[1].src_fd = tls[w].fd
                          /\ tls'[w].time = NextBoundary(S[Len(S)].timestamp)
                    /\ \A k \in 2 .. Len(S) :
                          /\ S[k].timestamp = NextBoundary(S[k - 1].timestamp)
                          /\ S[k].src_fd = -1
                    /\ \A k \in 1 .. Len(S) :
                          /\ S[k].threadid = w
                          /\ S[k].src_fd # -1 =>
                                InterimPath(S[k].timestamp, w) \in DOMAIN disk
                          /\ Count(recvd, <<w, S[k].timestamp>>)
                                + Queued(chan', w, S[k].timestamp) = 1
       /\ (mpc = "recv" /\ mpc' = "merging") =>
            \A w \in Workers :
                InterimPath(waiting'[fin'].timestamp, w) \notin DOMAIN disk =>
                    ~readers'[w].source
      ]_vars

\* C14 witness: an interval in which one thread wrote packets and another
\* opened no interim file was merged to its end.
C14_Witness ==
    \E timestamp \in DOMAIN mergelog : \E w, v \in Workers :
        /\ MergedWhole(timestamp)
        /\ InterimPath(timestamp, w) \notin DOMAIN appended
        /\ InterimPackets(timestamp, v) # <<>>
        /\ Range(InterimPackets(timestamp, v))
              = Range(disk[MergedPath(timestamp)])
        /\ DonePath(timestamp) \in DOMAIN disk
        /\ open_fds = {}

(* ---- C15: draining for a reload ---- *)

\* The packets thread w has appended to its interim files
AppendedBy(w) ==
    {p \in UNION {Range(appended[f]) : f \in DOMAIN appended} : p.w = w}

\* C15: once the reload flag is set, the next packet of a thread that is not
\* yet ending makes it send exactly one interval-over message, which names
\* its current interval, and mark itself as ending without appending the
\* packet (if no library call fails while the packet is handled); a thread
\* marks itself as ending for no other reason; a packet delivered to a thread
\* that is ending changes nothing: nothing is appended, nothing is sent.
C15_ReloadDrain ==
    [][\A w \in Workers :
          delivered'[w] # delivered[w] =>
              LET S == SentBy(w)
                  start == IF tls[w].time = 0 THEN Sec(first_packet')
                           ELSE tls[w].time
              IN  /\ (corsaro_restart = 1 /\ tls[w].ending = 0) =>
                        /\ Len(S) <= 1
                        /\ appended' = appended
                        /\ faults' = faults =>
                              /\ Len(S) = 1
                              /\ S[1].timestamp = start
                              /\ S[1].type = "INTERVAL_DONE"
                              /\ tls'[w].ending = 1
                  /\ (tls[w].ending = 0 /\ tls'[w].ending = 1) =>
                        corsaro_restart = 1
                  /\ tls[w].ending = 1 =>
                        /\ chan' = chan
                        /\ appended' = appended
                        /\ disk' = disk
                        /\ tls' = tls
      ]_vars

\* C15 witness: a thread that had appended packets drained for a reload and
\* was delivered a further packet afterwards.
C15_Witness ==
    \E w \in Workers :
        /\ corsaro_restart = 1
        /\ tls[w].ending = 1
        /\ faults = 0
        /\ AppendedBy(w) # {}
        /\ Len(delivered[w]) >= Cardinality(AppendedBy(w)) + 2

(* ---- C16: the count of ended threads ---- *)

\* The processing threads that have marked themselves as ending
EndingThreads(tl) == {w \in Workers : tl[w].ending = 1}

\* C16: the counter of ended threads is the number of threads that have
\* marked themselves as ending, so it never exceeds the number of threads;
\* it changes only in a step in which one thread marks itself, and then by
\* one; that step sets the halt flag if the counter has reached the number of
\* threads and leaves the flag alone otherwise.
C16_ThreadsEndedCounted ==
    [][/\ threads_ended' = Cardinality(EndingThreads(tls'))
       /\ threads_ended' <= Threads
       /\ EndingThreads(tls) \subseteq EndingThreads(tls')
       /\ threads_ended' # threads_ended =>
             /\ threads_ended' = threads_ended + 1
             /\ Cardinality(EndingThreads(tls') \ EndingThreads(tls)) = 1
             /\ corsaro_halted' =
                   IF threads_ended' = Threads THEN 1 ELSE corsaro_halted
      ]_vars

\* C16 witness: every thread has ended for a reload, and the last of them
\* set the halt flag.
C16_Witness ==
    /\ threads_ended = Threads
    /\ EndingThreads(tls) = Workers
    /\ corsaro_halted = 1
    /\ faults = 0
    /\ mainpc = "running"

(* ---- C17: a reload in the middle of an interval ---- *)

\* The interval an ended thread w named in its last interval-over message:
\* the one before the interval it moved on to
DrainedInterval(w) ==
    IF tls[w].time - Interval < Sec(first_packet)
    THEN Sec(first_packet) ELSE tls[w].time - Interval

\* C17: when every thread has ended for a reload in the same interval, in
\* which packets were written, no library call has failed and the capture
\* process has finished its shutdown, the merged file and the .done file of
\* that interval exist.
C17_PartialIntervalMerged ==
    \A timestamp \in 1 .. MaxTime :
        (/\ mainpc = "done"
         /\ faults = 0
         /\ EndingThreads(tls) = Workers
         /\ \A w \in Workers : DrainedInterval(w) = timestamp
         /\ \E w \in Workers : InterimPath(timestamp, w) \in DOMAIN appended) =>
            /\ MergedPath(timestamp) \in DOMAIN disk
            /\ DonePath(timestamp) \in DOMAIN disk

(* ---- C18: the order of a thread's interval-over messages ---- *)

\* The timestamps of the messages in a pipe are strictly increasing
Increasing(q) ==
    \A i, j \in 1 .. Len(q) : i < j => q[i].timestamp < q[j].timestamp

\* The intervals for which the merging thread has handled a message of w
HandledOf(rc, w) == {k[2] : k \in {x \in DOMAIN rc : x[1] = w}}

\* C18: the interval-over messages of one thread carry strictly increasing
\* timestamps: those queued in its pipe are in increasing order and all are
\* later than every message of the thread the merging thread has handled;
\* a thread only appends to its pipe, and the merging thread only takes the
\* oldest message of a pipe, so it handles them in the order sent.
C18_PerThreadOrder ==
    [][\A w \in Workers :
          /\ Increasing(chan'[w])
          /\ \A timestamp \in HandledOf(recvd', w) :
                \A j \in 1 .. Len(chan'[w]) :
                    timestamp < chan'[w][j].timestamp
          /\ chan'[w] # chan[w] =>
                \/ /\ Len(chan'[w]) > Len(chan[w])
                   /\ SubSeq(chan'[w], 1, Len(chan[w])) = chan[w]
                   /\ recvd' = recvd
                \/ /\ chan[w] # <<>>
                   /\ chan'[w] = Tail(chan[w])
                   /\ recvd' = Incr(recvd, <<w, Head(chan[w]).timestamp>>)
      ]_vars

\* C18 witness: the merging thread has handled two messages of one thread,
\* for two intervals.
C18_Witness ==
    \E w \in Workers :
        /\ Cardinality(HandledOf(recvd, w)) >= 2
        /\ \A timestamp \in HandledOf(recvd, w) : recvd[<<w, timestamp>>] = 1

(* ---- C19: the first interval ---- *)

\* The timestamps of all interval-over messages of thread w, queued or handled
MessageTimes(ch, rc, w) ==
    {ch[w][k].timestamp : k \in 1 .. Len(ch[w])} \cup HandledOf(rc, w)

\* The threads that have initialised their first interval
Started(tl) == {w \in Workers : tl[w].time # 0}

C21_UnexpectedExitHalts ==
    (monpc = "loop" /\ child_halted = 0 /\ unexpected > 0) => mon_halted = 1

(* ---- C22: a capture process that exits after a reload ---- *)

\* C22: the monitor flags an unexpected termination only when it has reaped
\* the exit of a capture process to which it had not forwarded a reload.
C22_ExpectedExitNeverHalts ==
    [][(monpc = "children" /\ runerr = 0 /\ runerr' = 1) =>
          \E c \in Pids : children[c] = "reaped" /\ c \notin hupped]_vars

(* ---- C23: the capture process a reload is forwarded to ---- *)

\* The capture processes that run and were sent neither SIGHUP nor SIGTERM
Unsignalled == {c \in Pids : children[c] = "alive" /\ c \notin hupped \cup termed}

\* C23: the pid the monitor has read for forwarding a reload is the pid of
\* the capture process forked last, and at most one capture process runs
\* that was sent neither SIGHUP nor SIGTERM.
C23_ReloadsCurrentChild ==
    /\ monpc = "kill" => runpid = Cardinality(Forked)
    /\ Cardinality(Unsignalled) <= 1

(* ---- C24: SIGTERM when the monitor halts ---- *)

\* C24: when the monitor process exits with its halt flag set, it has sent
\* SIGTERM to the pid that is in the pid file.
C24_TermBeforeExit ==
    [][(monpc = "endwdcap" /\ monpc' = "exited" /\ mon_halted = 1
            /\ pidfile # 0) => pidfile \in termed']_vars

(* ---- C25: failures in per_packet ---- *)

\* C25: when a library call fails while a thread handles a packet (the
\* look-up of the first packet, a send, the derivation of the file name, the
\* opening of the interim file or the write), the halt flag is set, the
\* packet is not appended and the thread is not marked as ending; if the
\* look-up failed the thread has not started, and otherwise its interval is
\* the one after the last interval it reported in this call (its interval at
\* the start of the call if it reported none), with the boundary that belongs
\* to it: a failed send does not move the interval on.  Every packet that a
\* thread neither appends nor drains for a reload sets the halt flag.
C25_HotPathFailure ==
    [][\A w \in Workers :
          delivered'[w] # delivered[w] =>
              LET S == SentBy(w)
                  start == IF tls[w].time = 0 THEN Sec(first_packet')
                           ELSE tls[w].time
              IN  /\ faults' # faults =>
                        /\ corsaro_halted' = 1
                        /\ appended' = appended
                        /\ tls[w].ending = 0 /\ tls'[w].ending = 0
                        /\ threads_ended' = threads_ended
                        /\ mainpc' = mainpc
                        /\ IF tls'[w].time = 0
                           THEN S = <<>> /\ tls'[w] = tls[w]
                           ELSE /\ tls'[w].time =
                                     IF S = <<>> THEN start
                                     ELSE NextBoundary(S[Len(S)].timestamp)
                                /\ tls'[w].next_report =
                                     NextBoundary(tls'[w].time)
                  /\ (tls[w].ending = 0 /\ tls'[w].ending = 0
                            /\ appended' = appended) =>
                        corsaro_halted' = 1
      ]_vars

\* C25 witness: a send failed: the halt flag is set, the thread's last packet
\* lies beyond the boundary of the interval the thread is still in, and its
\* writer was reset.
C25_Witness ==
    \E w \in Workers :
        /\ faults = 1
        /\ corsaro_halted = 1
        /\ corsaro_restart = 0
        /\ tls[w].ending = 0
        /\ tls[w].time # 0
        /\ tls[w].fd = -1
        /\ tls[w].interimfilename = NoName
        /\ delivered[w] # <<>>
        /\ Sec(delivered[w][Len(delivered[w])]) >= tls[w].next_report
        /\ AppendedBy(w) # {}

(* ---- C26: errors at merge time ---- *)

\* The readers of the merge in hand were all set up for interval timestamp
ReadersCreated(rds, timestamp) ==
    \A i \in Workers :
        /\ ~rds[i].freed
        /\ rds[i].uri = corsaro_wdcap_derive_output_name(timestamp, i, 1, 0)

\* C26: when write_merged_output returns from a merge in which an interim
\* file of the interval could not be opened, or which failed (the output
\* writer could not be created, a packet could not be written), there is no
\* ".done" file for the interval, no interim file of the interval is left
\* on disk, and the entry of the interval is unlinked and freed.
C26_MergeErrorAbandons ==
    [][(/\ mpc = "cleanup" /\ mpc' = "recv"
        /\ ReadersCreated(readers, waiting[fin].timestamp)
        /\ \/ Unopened(readers, disk, waiting[fin].timestamp) # {}
           \/ mergelog[waiting[fin].timestamp].ret = -1) =>
          LET timestamp == waiting[fin].timestamp
          IN  /\ DonePath(timestamp) \notin DOMAIN disk'
              /\ \A w \in Workers :
                    InterimPath(timestamp, w) \notin DOMAIN disk'
              /\ FindInterval(waiting', timestamp) = 0
              /\ freed' = Incr(freed, timestamp)
      ]_vars

(* ---- C27: messages of an unknown type ---- *)

\* C27 as claimed: the merging thread ends the process only once more than
\* BadLimit messages of an unknown type were counted, so that BadLimit or
\* fewer of them do not end it.
C27_ExitsAboveLimit == badmessages <= BadLimit => mpc # "exit"

\* C27: a message of an unknown type adds one to the counter and leaves the
\* pending list, the freed entries, the readers and the files alone; the
\* merging thread goes on receiving while the counter is below BadLimit and
\* ends the process when the counter reaches BadLimit, so that fewer than
\* BadLimit such messages do not end it.
C27_ExitsAtLimit ==
    [][badmessages' # badmessages =>
          /\ badmessages' = badmessages + 1
          /\ mpc = "recv"
          /\ UNCHANGED <<waiting, freed, fin, readers, mwriter, disk,
                         recvd, created, mergelog, open_fds>>
          /\ mpc' = IF badmessages' < BadLimit THEN "recv" ELSE "exit"
      ]_vars

\* C27 witness: the process was ended by the BadLimit-th message of an
\* unknown type, with an interval still pending
C27_Witness ==
    /\ mpc = "exit"
    /\ badmessages = BadLimit
    /\ waiting # <<>>
    /\ chan = [p \in Producers |-> <<>>]

(* ---- C28: the halt message ---- *)

\* The merging thread takes a halt message off the pipe of producer p
ReceivesStop(p) ==
    /\ mpc = "recv"
    /\ chan[p] # <<>>
    /\ Head(chan[p]).type = "STOP"
    /\ chan' = [chan EXCEPT ![p] = Tail(@)]

\* The pending entries for interval timestamp
PendingFor(list, timestamp) ==
    {j \in 1 .. Len(list) : list[j].timestamp = timestamp}

\* C28: the step that receives the halt message ends the merging thread: it
\* merges nothing, creates and deletes no file and closes no descriptor, and
\* every entry still pending is freed, unmerged.  From then on the merging
\* thread does nothing: no message is taken off a pipe, no merge is made,
\* no entry is freed, and the only descriptors closed are those the
\* processing threads still hold, which the main thread closes.
C28_StopEndsMerger ==
    [][/\ (\E p \in Producers : ReceivesStop(p)) =>
              /\ mpc' = "exited"
              /\ waiting' = <<>>
              /\ \A t \in DOMAIN freed' :
                    Count(freed', t) =
                        Count(freed, t) + Cardinality(PendingFor(waiting, t))
              /\ \A j \in 1 .. Len(waiting) :
                    waiting[j].timestamp \in DOMAIN freed'
              /\ UNCHANGED <<disk, open_fds, mergelog, readers, mwriter,
                             recvd, badmessages>>
       /\ mpc = "exited" =>
              /\ mpc' = "exited"
              /\ \A p \in Producers :
                    /\ Len(chan'[p]) >= Len(chan[p])
                    /\ SubSeq(chan'[p], 1, Len(chan[p])) = chan[p]
              /\ UNCHANGED <<waiting, freed, mergelog, readers, mwriter,
                             recvd, created>>
              /\ MergedTimes(disk') = MergedTimes(disk)
              /\ DoneTimes(disk') = DoneTimes(disk)
              /\ open_fds \ open_fds' \subseteq {tls[w].fd : w \in Workers}
      ]_vars

\* C28 witness: the merging thread has ended on the halt message while an
\* interval-over message with its descriptor is still queued, and an entry
\* that was waiting for that message was freed without a merge
C28_Witness ==
    /\ mpc = "exited"
    /\ mainpc = "joining"
    /\ faults = 0
    /\ chan[MainProducer] = <<>>
    /\ \E w \in Workers :
          /\ chan[w] # <<>>
          /\ Head(chan[w]).src_fd \in open_fds
          /\ Count(freed, Head(chan[w]).timestamp) = 1
          /\ Head(chan[w]).timestamp \notin DOMAIN mergelog

(* ---- C30: the order of the steps that end a merge ---- *)

\* C30 as claimed: once the ".done" file of the interval in hand has been
\* created, the output writer is closed and no interim file of the interval
\* is left on disk.
C30_InterimsDeletedBeforeDone ==
    (mpc = "cleanup" /\ mergelog[waiting[fin].timestamp].ret = 0) =>
        /\ ~mwriter
        /\ DonePath(waiting[fin].timestamp) \in DOMAIN disk
        /\ \A w \in Workers :
              InterimPath(waiting[fin].timestamp, w) \notin DOMAIN disk

\* C30: the step that creates the ".done" file of an interval finds the
\* output writer destroyed (the merged file is on disk, flushed and closed)
\* and leaves every interim file whose reader was opened on disk; these
\* files are deleted by the clean-up that follows, before
\* write_merged_output returns, and the ".done" file stays.
C30_DoneBeforeInterimsDeleted ==
    [][/\ (mpc = "merging" /\ mpc' = "cleanup"
                /\ mergelog'[waiting[fin].timestamp].ret = 0) =>
              LET timestamp == waiting[fin].timestamp
              IN  /\ ~mwriter'
                  /\ MergedPath(timestamp) \in DOMAIN disk'
                  /\ DonePath(timestamp) \in DOMAIN disk'
                  /\ \A w \in Workers :
                        readers'[w].source =>
                            InterimPath(timestamp, w) \in DOMAIN disk'
       /\ (mpc = "cleanup" /\ mpc' = "recv") =>
              LET timestamp == waiting[fin].timestamp
              IN  /\ \A w \in Workers :
                        readers[w].source =>
                            InterimPath(timestamp, w) \notin DOMAIN disk'
                  /\ DoneTimes(disk') = DoneTimes(disk)
                  /\ MergedTimes(disk') = MergedTimes(disk)
      ]_vars

\* C30 witness: the ".done" file of an interval exists next to the complete
\* merged file while an interim file of the interval, which the merge has
\* read, is still on disk
C30_Witness ==
    /\ mpc = "cleanup"
    /\ ~mwriter
    /\ LET timestamp == waiting[fin].timestamp
       IN  /\ DonePath(timestamp) \in DOMAIN disk
           /\ \E w \in Workers :
                 /\ readers[w].source
                 /\ InterimPath(timestamp, w) \in DOMAIN disk
                 /\ Content(disk, InterimPath(timestamp, w)) # <<>>
                 /\ Range(Content(disk, InterimPath(timestamp, w)))
                        \subseteq Range(Content(disk, MergedPath(timestamp)))

(* ---- C29: signals while the threads are created ---- *)

\* run_wdcap is between the pthread_sigmask that precedes the creation of
\* the threads and the one that follows it
CreatingThreads == startpc \in {"masked", "merger", "workers"}

\* C29: while the threads are created the main thread blocks every signal;
\* the merging thread and the processing threads block every signal, so
\* that no handler ever runs in them; and when the processing threads have
\* been started the main thread has the mask it had before.
C29_SignalsBlockedDuringCreation ==
    /\ CreatingThreads => sigmask[MainTid] = Signals
    /\ \A t \in started \ {MainTid} : sigmask[t] = Signals
    /\ \A h \in handled : h[1] = MainTid
    /\ startpc = "running" => sigmask[MainTid] = sig_before

(* ---- C31: the interval that is open when the capture stops ---- *)

\* Thread w writes to an interim file
HasOpenInterim(w) == tls[w].fd # -1 /\ tls[w].interimfilename # NoName

OpenIntervalLeft(w) ==
    LET timestamp == tls[w].time
    IN  /\ Queued(chan, w, timestamp) = 0
        /\ Count(recvd, <<w, timestamp>>) = 0
        /\ timestamp \notin DOMAIN mergelog
        /\ MergedPath(timestamp) \notin DOMAIN disk
        /\ DonePath(timestamp) \notin DOMAIN disk
        /\ InterimPath(timestamp, w) \in DOMAIN disk
        /\ \A v \in Workers :
              InterimPath(timestamp, v) \in DOMAIN appended =>
                  /\ InterimPath(timestamp, v) \in DOMAIN disk
                  /\ disk[InterimPath(timestamp, v)] =
                         appended[InterimPath(timestamp, v)]

C32_ReloadEventuallyHalts == (corsaro_restart = 1) ~> (corsaro_halted = 1)

(* ---- C37: a halted capture process terminates ---- *)

\* C37: once the halt flag is set in a capture process whose threads are
\* scheduled fairly, run_wdcap eventually comes to its end (the processing
\* threads joined, the merging thread out of its loop and joined), or the
\* process has been ended from the merging thread.
C37_HaltedTerminates ==
    (corsaro_halted = 1) ~> (mainpc \in {"done", "exit", "aborted"})

(* ---- C33: the ".stats" file ---- *)

\* The reports in which field f is valid
ValidReports(f) ==
    {i \in 1 .. Len(thread_stats) : thread_stats[i].stats[f].valid}

\* The sum of field f over the reports in I
RECURSIVE FieldSum(_, _)
FieldSum(f, I) ==
    IF I = {} THEN 0
    ELSE LET i == CHOOSE j \in I : TRUE
         IN  thread_stats[i].stats[f].val + FieldSum(f, I \ {i})

\* The line of the ".stats" file for field number k in block number b
StatsLine(b, k) == statsfile[(b - 1) * Len(StatFields) + k]

\* C33: the ".stats" file holds one block of lines for each thread, in the
\* order the threads reported and labelled with the id of the thread, every
\* thread having exactly one block; a line of a thread shows the counter of
\* the field if the field is valid for the thread and -1 otherwise; the last
\* block is labelled -1 and shows for each field the sum of the counters of
\* the threads for which the field is valid, and -1 if and only if there is
\* no such thread.
C33_StatsLines ==
    statsfile # <<>> =>
        /\ Len(statsfile) = (Threads + 1) * Len(StatFields)
        /\ {thread_stats[i].threadid : i \in 1 .. Threads} = Workers
        /\ \A k \in 1 .. Len(StatFields) :
              LET f == StatFields[k]
              IN  /\ \A i \in 1 .. Threads :
                        /\ StatsLine(i, k).thread = thread_stats[i].threadid
                        /\ StatsLine(i, k).field = f
                        /\ thread_stats[i].stats[f].valid =>
                              StatsLine(i, k).pkts =
                                  thread_stats[i].stats[f].val
                        /\ StatsLine(i, k).pkts = -1 <=>
                              ~thread_stats[i].stats[f].valid
                  /\ StatsLine(Threads + 1, k).thread = -1
                  /\ StatsLine(Threads + 1, k).field = f
                  /\ StatsLine(Threads + 1, k).pkts = -1 <=>
                        ValidReports(f) = {}
                  /\ ValidReports(f) # {} =>
                        StatsLine(Threads + 1, k).pkts =
                            FieldSum(f, ValidReports(f))

\* C33 witness: a ".stats" file in which a field is valid for one thread
\* only, whose counter the other thread left at a value that must not be
\* added, and another field is valid for no thread
C33_Witness ==
    /\ statsfile # <<>>
    /\ \E f, g \in FieldNames :
          /\ Cardinality(ValidReports(f)) = 1
          /\ \A i \in 1 .. Threads : thread_stats[i].stats[f].val = MaxStat
          /\ ValidReports(g) = {}
    /\ thread_stats[1].threadid > thread_stats[2].threadid

(* ---- C34: intervals complete in order ---- *)

\* C34: in the capture process, whose threads all start from the interval of
\* the first packet of the capture and whose pipes keep the order of each
\* producer, the pending list is always in strictly increasing order of
\* timestamp; an entry that receives its last report is the head of the
\* list, and its timestamp is greater than that of every interval merged
\* before, so that a merge is only ever made for the head of the list.
C34_CompletesInOrder ==
    [][/\ Increasing(waiting')
       /\ (mpc = "recv" /\ mpc' = "merging") =>
              /\ fin' = 1
              /\ \A timestamp \in DOMAIN mergelog :
                    timestamp < waiting'[1].timestamp
       /\ mpc' \in {"merging", "cleanup"} => fin' = 1
      ]_vars

\* C34 witness: a second interval is being merged, as the head of the list,
\* while a later interval is already pending behind it
C34_Witness ==
    /\ mpc = "merging"
    /\ fin = 1
    /\ Len(waiting) >= 2
    /\ mergelog # <<>>

(* ---- C35: unlinking a completed interval ---- *)

\* list without its k-th entry
WithoutEntry(list, k) ==
    SubSeq(list, 1, k - 1) \o SubSeq(list, k + 1, Len(list))

\* C35: when merge_finished_interval unlinks the entry of the interval it
\* has merged, the other entries of the pending list stay in the list, in
\* their order and unchanged, wherever in the list the merged entry was.
C35_UnlinkKeepsOthers ==
    [][(mpc = "cleanup" /\ mpc' = "recv") =>
          waiting' = WithoutEntry(waiting, fin)
      ]_vars

(* ---- C36: the interim files of an interval that is merged ---- *)

\* The intervals whose merge has begun
MergeBegun ==
    DOMAIN mergelog \cup
        (IF mpc \in {"merging", "cleanup"} THEN {waiting[fin].timestamp}
         ELSE {})

\* No interval-over message for timestamp is in a pipe of ch, and no thread
\* of tl has an interim file of the interval open
HandedOver(ch, tl, timestamp) ==
    /\ \A w \in Workers : Queued(ch, w, timestamp) = 0
    /\ \A w \in Workers :
          tl[w].interimfilename # NoName =>
              \A v \in Workers :
                  BarePath(tl[w].interimfilename) # InterimPath(timestamp, v)

\* C36: the merging thread closes the descriptor of every interval-over
\* message it handles, before it looks at the interval; when it begins to
\* merge an interval every thread's message for the interval has been
\* handled, so that every descriptor handed over for it is closed, and no
\* thread has an interim file of the interval open; and from then on no
\* packet is appended to an interim file of the interval.
C36_ClosedBeforeMerge ==
    [][/\ \A p \in Producers :
             (mpc = "recv" /\ chan[p] # <<>>
                   /\ chan' = [chan EXCEPT ![p] = Tail(@)]
                   /\ Head(chan[p]).type = "INTERVAL_DONE"
                   /\ Head(chan[p]).src_fd # -1) =>
                 /\ Head(chan[p]).src_fd \in open_fds
                 /\ Head(chan[p]).src_fd \notin open_fds'
       /\ (mpc = "recv" /\ mpc' = "merging") =>
             /\ \A w \in Workers :
                   Count(recvd', <<w, waiting'[fin'].timestamp>>) = 1
             /\ HandedOver(chan', tls', waiting'[fin'].timestamp)
       /\ \A timestamp \in MergeBegun :
             /\ HandedOver(chan', tls', timestamp)
             /\ \A w \in Workers :
                   InterimPath(timestamp, w) \in DOMAIN appended' =>
                       /\ InterimPath(timestamp, w) \in DOMAIN appended
                       /\ appended'[InterimPath(timestamp, w)] =
                              appended[InterimPath(timestamp, w)]
      ]_vars

\* C36 witness: an interval is being merged for which every thread handed
\* over a descriptor, and its interim files are being read while a thread
\* has the interim file of a later interval open
C36_Witness ==
    /\ mpc = "merging"
    /\ \A w \in Workers : readers[w].source
    /\ \E w \in Workers :
          /\ tls[w].fd # -1
          /\ tls[w].fd \in open_fds
          /\ tls[w].time > waiting[fin].timestamp

(* ---- C38: the items of the memory handler ---- *)

\* The items of blob b in a set of held items
HeldFrom(heldset, b) == {item \in heldset : item.itemsource = b}

\* The blobs on the free list of the handler, from its head
RECURSIVE FreeListFrom(_, _, _)
FreeListFrom(bl, b, n) ==
    IF b = NULL \/ n = 0 THEN {}
    ELSE {b} \cup FreeListFrom(bl, bl[b].nextfree, n - 1)

FreeBlobs(h, bl) == FreeListFrom(bl, h.freelist, Len(bl))

\* C38: a call of get_corsaro_memhandler_item returns a slot below the item
\* count of its blob, in a mapped blob, that no caller holds at the call; a
\* blob is reset for reuse, put on the free list or unmapped only when no
\* caller holds an item of it, and it is put on the free list only when it
\* is not the current blob.
C38_MemHandlerSafe ==
    [][/\ (mh_last' = "get" /\ ~mh_crashed')
            => /\ mh_ret'.slot < memblobs'[mh_ret'.itemsource].alloceditems
               /\ memblobs'[mh_ret'.itemsource].mapped
               /\ mh_ret' \notin mh_held
       /\ \A b \in DOMAIN memblobs :
            /\ memblobs'[b].released < memblobs[b].released
                 => HeldFrom(mh_held, b) = {}
            /\ (b \in FreeBlobs(memhandler', memblobs')
                /\ b \notin FreeBlobs(memhandler, memblobs))
                 => /\ HeldFrom(mh_held', b) = {}
                    /\ b # memhandler'.current
            /\ (memblobs[b].mapped /\ ~memblobs'[b].mapped)
                 => HeldFrom(mh_held', b) = {}]_memvars

\* C38: a blob has been taken from the free list for reuse, a blob has been
\* unmapped, and an item of the current blob is held
C38_Witness ==
    /\ mh_last = "get"
    /\ memhandler.current < Len(memblobs)
    /\ mh_ret \in mh_held
    /\ \E b \in DOMAIN memblobs : ~memblobs[b].mapped

(* ---- C39: the messages to an IP tracker ---- *)

\* The header of a message on the queue of a tracker: its first part
HeaderOf(msg) == msg[1]

\* A message is a batch of updates: an update header and the updates
IsUpdateBatch(msg) ==
    /\ Len(msg) = 2
    /\ msg[1].msgtype = CORSARO_IP_MESSAGE_UPDATE
    /\ msg[1].bodycount > 0
    /\ msg[2].msgtype = "body"
    /\ msg[2].bodies = msg[1].bodycount

\* A message is the one that ends an interval
IsIntervalEnd(msg) ==
    /\ Len(msg) = 1
    /\ msg[1].msgtype \in {CORSARO_IP_MESSAGE_INTERVAL,
                           CORSARO_IP_MESSAGE_RESET}

\* The messages sent are update batches and end-of-interval messages that
\* carry the sequence numbers 0, 1, 2, ... in the order they were sent
NumberedInOrder(queue) ==
    \A k \in 1 .. Len(queue) :
        /\ IsUpdateBatch(queue[k]) \/ IsIntervalEnd(queue[k])
        /\ HeaderOf(queue[k]).seqno = k - 1

\* C39: the messages a processing thread has sent to the queue of a tracker
\* are update batches and INTERVAL or RESET messages numbered 0, 1, 2, ...
\* without a gap or a repeat, and when corsaro_report_end_interval returns
\* the last message of each queue is the INTERVAL or RESET message of the
\* interval and no update is left in the buffer.
C39_TrackerMessagesInOrder ==
    [][\A i \in TrackerIds :
         /\ NumberedInOrder(tracker_queues'[i].queue)
         /\ rp_last' = "end_interval"
              => /\ tracker_queues'[i].queue # <<>>
                 /\ IsIntervalEnd(tracker_queues'[i].queue[
                                      Len(tracker_queues'[i].queue)])
                 /\ totracker'[i].header.bodycount = 0
                 /\ tracker_queues'[i].more = <<>>]_repvars

(* ---- C40: the erratic filter in a list of filters ---- *)

\* The entries of the list that ask for the erratic filter
ErraticEntries(list) ==
    {i \in 1 .. Len(list) : list[i].filterid = CORSARO_FILTERID_ERRATIC}

\* C40: after corsaro_apply_multiple_filters has run a whole list, every
\* entry for CORSARO_FILTERID_ERRATIC has the result 1 if the spoofing
\* filter matches the packet, and in any case the result that
\* corsaro_apply_filter_by_id gives for CORSARO_FILTERID_ERRATIC.
C40_ErraticCoversSpoofed ==
    (flt_packet # <<>> /\ flt_ret = 0)
        => \A i \in ErraticEntries(flt_torun) :
              /\ apply_spoofing_filter(flt_packet[1]) > 0
                    => flt_torun[i].result = 1
              /\ flt_torun[i].result
                    = FilterById(CORSARO_FILTERID_ERRATIC, flt_packet[1])
              /\ flt_byid # <<>> /\ flt_byid[1].filterid = CORSARO_FILTERID_ERRATIC
                    => flt_torun[i].result = flt_byid[1].result

====
